---- MODULE Spec2Model ----
(***************************************************************************)
(* FitPet: the in-memory store (server/storage.ts, MemStorage) and the     *)
(* HTTP handlers that drive it (server/routes.ts).                         *)
(*                                                                         *)
(* Several views of the same program are given:                            *)
(*   Spec        every request is handled to completion before the next    *)
(*               one starts (one action per handler); SpecSched, SpecPet,  *)
(*               SpecCare and SpecStats are the same view over the         *)
(*               scheduling, pet, care and statistics routes;              *)
(*   SpecConc    complete requests of two clients are in flight at once    *)
(*               and interleave at the handler's await points; SpecRace is *)
(*               the same view over the care routes;                       *)
(*   SpecMood    the pet query of the client (client/PetContext.tsx) and   *)
(*   SpecClient  the workout flow of the client (WorkoutContext.tsx) over  *)
(*               the server handling one request at a time;                *)
(*   SpecStorage storage.updatePet called directly with arbitrary partial  *)
(*               updates (the IStorage contract, no route validation);     *)
(*   SpecCreate  the routes and storage methods that allocate ids;         *)
(*   SpecTimer   the useTimer hook of the client (reset, start, pause,     *)
(*               resume and the interval's callback); SpecTimerFair adds   *)
(*               weak fairness of the interval's callback.                 *)
(***************************************************************************)
EXTENDS Integers, Sequences, FiniteSets, TLC

VARIABLES
    users,                \* MemStorage.users        : id -> User
    pets,                 \* MemStorage.pets         : id -> Pet
    workouts,             \* MemStorage.workouts     : id -> Workout
    exercises,            \* MemStorage.exercises    : id -> Exercise
    workoutIdCounter,     \* MemStorage.workoutIdCounter
    exerciseIdCounter,    \* MemStorage.exerciseIdCounter
    userWorkouts,         \* MemStorage.userWorkouts : id -> UserWorkout
    userIdCounter,        \* MemStorage.userIdCounter
    petIdCounter,         \* MemStorage.petIdCounter
    userWorkoutIdCounter, \* MemStorage.userWorkoutIdCounter
    now,                  \* the wall clock read by new Date()
    resp,                 \* the response to the request handled last
    procs,                \* the in-flight handlers (concurrent view)
    careCount,            \* how many care and update requests changed a pet so far
    client                \* the state of the browser client (PetProvider, WorkoutProvider)

\* what initializeWorkouts creates; no request writes it
catalogue == <<workouts, exercises, workoutIdCounter, exerciseIdCounter>>
store == <<users, pets, catalogue, userWorkouts,
           userIdCounter, petIdCounter, userWorkoutIdCounter>>
vars == <<users, pets, catalogue, userWorkouts,
          userIdCounter, petIdCounter, userWorkoutIdCounter, now, resp, procs, careCount,
          client>>

----------------------------------------------------------------------------
(* Bounds of the model *)

\* userWorkoutIdCounter stops at MaxAssignments + 1
MaxAssignments == 2
\* the clock stops at MaxClock
MaxClock == 1
\* at most MaxCare care and update requests change a pet
MaxCare == 2
\* the countdown of useTimer starts at MaxTime seconds at most
MaxTime == 30
\* onComplete is called MaxOnComplete times at most between two resets
MaxOnComplete == 2
\* stats requests stop raising completedWorkouts at MaxCompletedWorkouts
MaxCompletedWorkouts == 2

----------------------------------------------------------------------------
(* Values *)

Undefined == [undefined |-> TRUE]
\* a nullable timestamp column: << >> is null, <<t>> is the Date t
Null == << >>
DateAt(t) == <<t>>

Min(a, b) == IF a < b THEN a ELSE b
Max(a, b) == IF a > b THEN a ELSE b

\* Math.round(n / d) for n >= 0, d > 0: halves round up
MathRound(n, d) == (2 * n + d) \div (2 * d)

\* Map.set(k, v)
MapSet(m, k, v) == [x \in DOMAIN m \cup {k} |-> IF x = k THEN v ELSE m[x]]

\* a Date built from a scheduledFor string: its local calendar fields, or an
\* Invalid Date (every getter returns NaN)
InvalidDate == [valid |-> FALSE, year |-> 0, month |-> 0, date |-> 0, hours |-> 0]
MkDate(y, m, d, h) == [valid |-> TRUE, year |-> y, month |-> m, date |-> d, hours |-> h]

\* the scheduledFor strings the requests carry
DateStrings == {"2025-01-10T08:00", "2025-01-10T19:30", "2025-02-10T08:00", "tomorrow"}

\* new Date(str)
NewDate(str) ==
    CASE str = "2025-01-10T08:00" -> MkDate(2025, 0, 10, 8)
      [] str = "2025-01-10T19:30" -> MkDate(2025, 0, 10, 19)
      [] str = "2025-01-11T08:00" -> MkDate(2025, 0, 11, 8)
      [] str = "2025-02-10T08:00" -> MkDate(2025, 1, 10, 8)
      [] OTHER -> InvalidDate

\* a.getX() === b.getX(): NaN === NaN is false
GetterEq(a, b, field) == a.valid /\ b.valid /\ a[field] = b[field]

----------------------------------------------------------------------------
(* MemStorage *)

getUser(us, id) == IF id \in DOMAIN us THEN us[id] ELSE Undefined

\* Array.from(map.values()): insertion order, which is id order
Values(m) == [i \in 1..Cardinality(DOMAIN m) |-> m[i]]

\* Array.prototype.find: the first element satisfying Test, or undefined
Find(seq, Test(_)) ==
    LET hits == SelectSeq(seq, Test) IN
    IF hits = << >> THEN Undefined ELSE Head(hits)

getUserByUsername(us, username) ==
    Find(Values(us), LAMBDA u : u.username = username)

NewUser(insertUser, id, t) ==
    [id |-> id, username |-> insertUser.username, password |-> insertUser.password,
     streak |-> 0, caloriesBurned |-> 0, activeMinutes |-> 0, completedWorkouts |-> 0,
     createdAt |-> t]

\* the minutes left as they were
StatsAdded_NoMinutes(user, caloriesBurned, activeMinutes, completedWorkouts) ==
    [user EXCEPT !.caloriesBurned = @ + caloriesBurned,
                 !.completedWorkouts = @ + completedWorkouts]

\* the deltas stored in the place of the sums
StatsAdded_Overwrite(user, caloriesBurned, activeMinutes, completedWorkouts) ==
    [user EXCEPT !.caloriesBurned = caloriesBurned,
                 !.activeMinutes = activeMinutes,
                 !.completedWorkouts = completedWorkouts]

\* the updatedUser of updateUserStats
StatsAdded(user, caloriesBurned, activeMinutes, completedWorkouts) ==
    [user EXCEPT !.caloriesBurned = @ + caloriesBurned,
                 !.activeMinutes = @ + activeMinutes,
                 !.completedWorkouts = @ + completedWorkouts]

\* a user record created for an id that has none
updateUserStats_Upsert(us, id, caloriesBurned, activeMinutes, completedWorkouts) ==
    IF getUser(us, id) = Undefined
    THEN MapSet(us, id, StatsAdded(NewUser([username |-> "", password |-> ""], id, 0),
                                   caloriesBurned, activeMinutes, completedWorkouts))
    ELSE MapSet(us, id, StatsAdded(us[id], caloriesBurned, activeMinutes, completedWorkouts))

\* the users map after updateUserStats(id, ...)
updateUserStats(us, id, caloriesBurned, activeMinutes, completedWorkouts) ==
    IF getUser(us, id) = Undefined THEN us
    ELSE MapSet(us, id, StatsAdded(us[id], caloriesBurned, activeMinutes, completedWorkouts))

\* what updateUserStats(id, ...) returns
updateUserStatsResult(us, id, caloriesBurned, activeMinutes, completedWorkouts) ==
    IF getUser(us, id) = Undefined THEN Undefined
    ELSE StatsAdded(us[id], caloriesBurned, activeMinutes, completedWorkouts)

getPet(ps, id) == IF id \in DOMAIN ps THEN ps[id] ELSE Undefined

\* no pet is ever found
getPetByUserId_Never(ps, userId) == Undefined

\* the first pet of the store, whoever owns it
getPetByUserId_Any(ps, userId) == Find(Values(ps), LAMBDA pet : TRUE)

getPetByUserId(ps, userId) == Find(Values(ps), LAMBDA pet : pet.userId = userId)

\* every pet gets the id 1
NewPet_IdOne(insertPet, id, t) ==
    [id |-> 1, userId |-> insertPet.userId, name |-> insertPet.name,
     type |-> IF "type" \in DOMAIN insertPet THEN insertPet.type ELSE "cat",
     health |-> 100, hunger |-> 100, happiness |-> 100, level |-> 1, xp |-> 0,
     lastFed |-> t, lastPlayed |-> t, lastGroomed |-> t]

NewPet(insertPet, id, t) ==
    [id |-> id, userId |-> insertPet.userId, name |-> insertPet.name,
     type |-> IF "type" \in DOMAIN insertPet THEN insertPet.type ELSE "cat",
     health |-> 100, hunger |-> 100, happiness |-> 100, level |-> 1, xp |-> 0,
     lastFed |-> t, lastPlayed |-> t, lastGroomed |-> t]

\* { ...pet, ...updates }
Spread(pet, updates) ==
    [f \in DOMAIN pet \cup DOMAIN updates |->
        IF f \in DOMAIN updates THEN updates[f] ELSE pet[f]]

\* "Ensure values are within bounds"
ClampPet(p) ==
    [p EXCEPT !.health = IF @ > 100 THEN 100 ELSE @,
              !.hunger = IF @ > 100 THEN 100 ELSE @,
              !.happiness = IF @ > 100 THEN 100 ELSE @]

\* the updatedPet of updatePet
PetUpdated(pet, updates) == ClampPet(Spread(pet, updates))

\* the pets map after updatePet(id, updates)
updatePet(ps, id, updates) ==
    IF getPet(ps, id) = Undefined THEN ps
    ELSE MapSet(ps, id, PetUpdated(ps[id], updates))

\* an unknown id answered with the first workout
getWorkout_First(ws, id) == IF id \in DOMAIN ws THEN ws[id] ELSE ws[1]

getWorkout(ws, id) == IF id \in DOMAIN ws THEN ws[id] ELSE Undefined

getUserWorkout(uws, id) == IF id \in DOMAIN uws THEN uws[id] ELSE Undefined

\* { ...uw, workout }
WithDetails(uw, workout) ==
    [f \in DOMAIN uw \cup {"workout"} |-> IF f = "workout" THEN workout ELSE uw[f]]

getUserWorkoutsByUserId(uws, ws, userId) ==
    LET list == SelectSeq(Values(uws), LAMBDA uw : uw.userId = userId) IN
    [i \in 1..Len(list) |-> WithDetails(list[i], getWorkout(ws, list[i].workoutId))]

\* an unknown id resolved to the assignment stored last
getUserWorkoutWithDetails_Last(uws, ws, id) ==
    LET n == Cardinality(DOMAIN uws)
        userWorkout == IF id \in DOMAIN uws THEN uws[id]
                       ELSE IF n > 0 THEN uws[n] ELSE Undefined
    IN
    IF userWorkout = Undefined THEN Undefined
    ELSE LET workout == getWorkout(ws, userWorkout.workoutId) IN
         IF workout = Undefined THEN Undefined
         ELSE WithDetails(userWorkout, workout)

getUserWorkoutWithDetails(uws, ws, id) ==
    LET userWorkout == getUserWorkout(uws, id) IN
    IF userWorkout = Undefined THEN Undefined
    ELSE LET workout == getWorkout(ws, userWorkout.workoutId) IN
         IF workout = Undefined THEN Undefined
         ELSE WithDetails(userWorkout, workout)

NewUserWorkout(insertUserWorkout, id) ==
    [id |-> id, userId |-> insertUserWorkout.userId,
     workoutId |-> insertUserWorkout.workoutId,
     scheduledFor |-> insertUserWorkout.scheduledFor,
     completed |-> FALSE, completedAt |-> Null]

\* the completedUserWorkout of completeUserWorkout
Completed(userWorkout, t) ==
    [userWorkout EXCEPT !.completed = TRUE, !.completedAt = DateAt(t)]

\* the userWorkouts map after completeUserWorkout(id)
completeUserWorkout(uws, id, t) ==
    IF getUserWorkout(uws, id) = Undefined THEN uws
    ELSE MapSet(uws, id, Completed(uws[id], t))

\* initializeWorkouts: the three sample workouts
SampleWorkouts ==
    <<[id |-> 1, name |-> "Morning Cardio", duration |-> 20, calories |-> 120],
      [id |-> 2, name |-> "Strength Training", duration |-> 25, calories |-> 110],
      [id |-> 3, name |-> "Evening Yoga", duration |-> 15, calories |-> 80]>>

\* createExercise: id = this.exerciseIdCounter++
NewExercise(insertExercise, id) == Spread(insertExercise, [id |-> id])

\* the exercises initializeWorkouts creates, in the order of its calls
InsertExercises ==
    <<[workoutId |-> 1, name |-> "Jumping Jacks", duration |-> 60, order |-> 1],
      [workoutId |-> 1, name |-> "High Knees", duration |-> 45, order |-> 2],
      [workoutId |-> 1, name |-> "Butt Kicks", duration |-> 45, order |-> 3],
      [workoutId |-> 2, name |-> "Push-ups", duration |-> 0, order |-> 1],
      [workoutId |-> 2, name |-> "Squats", duration |-> 0, order |-> 2],
      [workoutId |-> 2, name |-> "Planks", duration |-> 30, order |-> 3],
      [workoutId |-> 3, name |-> "Downward Dog", duration |-> 45, order |-> 1],
      [workoutId |-> 3, name |-> "Child's Pose", duration |-> 30, order |-> 2],
      [workoutId |-> 3, name |-> "Cobra Pose", duration |-> 30, order |-> 3]>>

\* initializeWorkouts: the exercises, created one after the other from
\* exerciseIdCounter = 1
SampleExercises ==
    [i \in 1..Len(InsertExercises) |-> NewExercise(InsertExercises[i], i)]

----------------------------------------------------------------------------
(* The state after the MemStorage constructor and its start-up microtasks *)

NoResponse == [op |-> "none", status |-> 0, body |-> Undefined]
\* a handler that is not running, and the locals of one that is
Idle == [pc |-> "idle", op |-> "none", id |-> 0, status |-> 0, body |-> Undefined,
         userWorkout |-> Undefined, details |-> Undefined,
         completedUserWorkout |-> Undefined, user |-> Undefined,
         pet |-> Undefined, updates |-> Undefined]
Procs == {1, 2}

\* the client before any interaction: the default message is shown, the
\* assignments query has no data yet (userWorkouts = []), no workout is open
\* (startedId keeps the argument of the last startWorkout that opened a
\* workout, for the properties; the code does not keep it)
\* useTimer({initialTime, onComplete}): timeLeft, isActive and isPaused are
\* its state, interval tells whether the interval of its effect is set, and
\* completions counts the calls of onComplete since the last reset
InitialTime == MaxTime

ClientInit == [pc |-> "idle", message |-> "default", userWorkouts |-> << >>,
               currentWorkout |-> Undefined, userWorkout |-> Undefined,
               startedId |-> 0,
               timeLeft |-> InitialTime, isActive |-> FALSE, isPaused |-> FALSE,
               interval |-> FALSE, completions |-> 0]

Init ==
    /\ users = <<NewUser([username |-> "user", password |-> "password"], 1, 0)>>
    /\ pets = <<NewPet([userId |-> 1, name |-> "Buddy", type |-> "cat"], 1, 0)>>
    /\ workouts = SampleWorkouts
    /\ exercises = SampleExercises
    /\ workoutIdCounter = Len(SampleWorkouts) + 1
    /\ exerciseIdCounter = Len(SampleExercises) + 1
    /\ userWorkouts = << >>
    /\ userIdCounter = 2
    /\ petIdCounter = 2
    /\ userWorkoutIdCounter = 1
    /\ now = 0
    /\ resp = NoResponse
    /\ procs = [p \in Procs |-> Idle]
    /\ careCount = 0
    /\ client = ClientInit

Reply(op, status, body) == [op |-> op, status |-> status, body |-> body]

----------------------------------------------------------------------------
(* Time passes *)

Tick ==
    /\ now < MaxClock
    /\ now' = now + 1
    /\ UNCHANGED <<store, resp, procs, careCount, client>>

----------------------------------------------------------------------------
(* POST /api/users *)

CreateUser(username) ==
    /\ IF getUserByUsername(users, username) # Undefined
       THEN /\ resp' = Reply("createUser", 409, Undefined)
            /\ UNCHANGED store
       ELSE LET user == NewUser([username |-> username, password |-> "secret"],
                                userIdCounter, now) IN
            /\ userIdCounter' = userIdCounter + 1
            /\ users' = MapSet(users, userIdCounter, user)
            /\ resp' = Reply("createUser", 201, user)
            /\ UNCHANGED <<pets, catalogue, userWorkouts, petIdCounter, userWorkoutIdCounter>>
    /\ UNCHANGED <<now, procs, careCount, client>>

----------------------------------------------------------------------------
(* POST /api/users/:id/stats *)

StatsKeys == {"caloriesBurned", "activeMinutes", "completedWorkouts"}

\* statsSchema accepts the body: the three keys are required, each a
\* non-negative integer
StatsSchemaAccepts(body) ==
    /\ StatsKeys \subseteq DOMAIN body
    /\ \A k \in StatsKeys : body[k] >= 0

PostStats(userId, body) ==
    /\ IF ~StatsSchemaAccepts(body)
       THEN /\ resp' = Reply("stats", 400, Undefined)
            /\ UNCHANGED users
       ELSE LET updatedUser == updateUserStatsResult(users, userId, body.caloriesBurned,
                                   body.activeMinutes, body.completedWorkouts) IN
            /\ updatedUser # Undefined
                  => updatedUser.completedWorkouts <= MaxCompletedWorkouts
            /\ users' = updateUserStats(users, userId, body.caloriesBurned,
                                        body.activeMinutes, body.completedWorkouts)
            /\ resp' = IF updatedUser = Undefined
                       THEN Reply("stats", 404, Undefined)
                       ELSE Reply("stats", 200, updatedUser)
    /\ UNCHANGED <<pets, catalogue, userWorkouts, userIdCounter, petIdCounter,
                   userWorkoutIdCounter, now, procs, careCount, client>>

----------------------------------------------------------------------------
(* POST /api/pets *)

CreatePet(insertPet) ==
    /\ IF getPetByUserId(pets, insertPet.userId) # Undefined
       THEN /\ resp' = Reply("createPet", 409, Undefined)
            /\ UNCHANGED store
       ELSE LET pet == NewPet(insertPet, petIdCounter, now) IN
            /\ petIdCounter' = petIdCounter + 1
            /\ pets' = MapSet(pets, petIdCounter, pet)
            /\ resp' = Reply("createPet", 201, pet)
            /\ UNCHANGED <<users, catalogue, userWorkouts, userIdCounter, userWorkoutIdCounter>>
    /\ UNCHANGED <<now, procs, careCount, client>>

----------------------------------------------------------------------------
(* PATCH /api/pets/:id *)

PetTypes == {"cat", "dog", "rabbit", "fox", "hamster"}
SchemaKeys == {"health", "hunger", "happiness", "xp", "level", "type",
               "lastFed", "lastPlayed", "lastGroomed"}

Has(body, key) == key \in DOMAIN body

\* updateSchema without the bound on level
UpdateSchemaAccepts_AnyLevel(body) ==
    /\ Has(body, "health") => body.health \in 0..100
    /\ Has(body, "hunger") => body.hunger \in 0..100
    /\ Has(body, "happiness") => body.happiness \in 0..100
    /\ Has(body, "xp") => body.xp >= 0
    /\ Has(body, "type") => body.type \in PetTypes
    /\ ~Has(body, "lastFed") /\ ~Has(body, "lastPlayed") /\ ~Has(body, "lastGroomed")

\* updateSchema accepts the body. A JSON body carries a timestamp as a string,
\* which z.date() rejects.
UpdateSchemaAccepts(body) ==
    /\ Has(body, "health") => body.health \in 0..100
    /\ Has(body, "hunger") => body.hunger \in 0..100
    /\ Has(body, "happiness") => body.happiness \in 0..100
    /\ Has(body, "xp") => body.xp >= 0
    /\ Has(body, "level") => body.level > 0
    /\ Has(body, "type") => body.type \in PetTypes
    /\ ~Has(body, "lastFed") /\ ~Has(body, "lastPlayed") /\ ~Has(body, "lastGroomed")

\* updateSchema.parse(body): z.object drops the keys it does not know
UpdateSchemaParse(body) == [f \in DOMAIN body \cap SchemaKeys |-> body[f]]

\* a request that changes a pet uses up one unit of the care budget
CareBudget(changed) ==
    /\ changed => careCount < MaxCare
    /\ careCount' = IF changed THEN careCount + 1 ELSE careCount

PatchPet(petId, body) ==
    /\ IF ~UpdateSchemaAccepts(body)
       THEN /\ resp' = Reply("patch", 400, Undefined)
            /\ UNCHANGED pets
       ELSE IF getPet(pets, petId) = Undefined
       THEN /\ resp' = Reply("patch", 404, Undefined)
            /\ UNCHANGED pets
       ELSE /\ pets' = updatePet(pets, petId, UpdateSchemaParse(body))
            /\ resp' = Reply("patch", 200, getPet(pets', petId))
    /\ CareBudget(pets' # pets)
    /\ UNCHANGED <<users, catalogue, userWorkouts, userIdCounter, petIdCounter,
                   userWorkoutIdCounter, now, procs, client>>

----------------------------------------------------------------------------
(* POST /api/pets/:id/feed, /play, /groom *)

\* a smaller meal
FeedUpdates_Ten(pet, t) == [hunger |-> Min(pet.hunger + 10, 100), lastFed |-> t]

FeedUpdates(pet, t) == [hunger |-> Min(pet.hunger + 20, 100), lastFed |-> t]

\* play without the floor on hunger
PlayUpdates_NoFloor(pet, t) ==
    [happiness |-> Min(pet.happiness + 15, 100),
     hunger |-> pet.hunger - 5,
     lastPlayed |-> t]

PlayUpdates(pet, t) ==
    [happiness |-> Min(pet.happiness + 15, 100),
     hunger |-> Max(pet.hunger - 5, 0),
     lastPlayed |-> t]

\* grooming stamped as play time as well
GroomUpdates_Played(pet, t) ==
    [health |-> Min(pet.health + 10, 100), lastGroomed |-> t, lastPlayed |-> t]

GroomUpdates(pet, t) == [health |-> Min(pet.health + 10, 100), lastGroomed |-> t]

\* an unknown pet answered as if it had been updated
Care_AlwaysOk(op, petId, updates) ==
    /\ IF getPet(pets, petId) = Undefined
       THEN /\ resp' = Reply(op, 200, Undefined)
            /\ UNCHANGED pets
       ELSE /\ pets' = updatePet(pets, petId, updates)
            /\ resp' = Reply(op, 200, getPet(pets', petId))
    /\ CareBudget(pets' # pets)
    /\ UNCHANGED <<users, catalogue, userWorkouts, userIdCounter, petIdCounter,
                   userWorkoutIdCounter, now, procs, client>>

\* the three handlers differ in the updates only
Care(op, petId, updates) ==
    /\ IF getPet(pets, petId) = Undefined
       THEN /\ resp' = Reply(op, 404, Undefined)
            /\ UNCHANGED pets
       ELSE /\ pets' = updatePet(pets, petId, updates)
            /\ resp' = Reply(op, 200, getPet(pets', petId))
    /\ CareBudget(pets' # pets)
    /\ UNCHANGED <<users, catalogue, userWorkouts, userIdCounter, petIdCounter,
                   userWorkoutIdCounter, now, procs, client>>

Feed(petId) == Care("feed", petId, FeedUpdates(getPet(pets, petId), now))
Play(petId) == Care("play", petId, PlayUpdates(getPet(pets, petId), now))
Groom(petId) == Care("groom", petId, GroomUpdates(getPet(pets, petId), now))

----------------------------------------------------------------------------
(* POST /api/users/:userId/workouts *)

\* the workout compared, not the day
SameWorkoutSameDay_AnyDay(uw, workoutId, scheduledDate) == uw.workoutId = workoutId

\* the full timestamp compared, not the calendar day
SameWorkoutSameDay_FullTimestamp(uw, workoutId, scheduledDate) ==
    /\ uw.workoutId = workoutId
    /\ GetterEq(uw.scheduledFor, scheduledDate, "hours")
    /\ GetterEq(uw.scheduledFor, scheduledDate, "date")
    /\ GetterEq(uw.scheduledFor, scheduledDate, "month")
    /\ GetterEq(uw.scheduledFor, scheduledDate, "year")

\* the predicate of existingWorkouts.some(...)
SameWorkoutSameDay(uw, workoutId, scheduledDate) ==
    /\ uw.workoutId = workoutId
    /\ GetterEq(uw.scheduledFor, scheduledDate, "date")
    /\ GetterEq(uw.scheduledFor, scheduledDate, "month")
    /\ GetterEq(uw.scheduledFor, scheduledDate, "year")

\* the predicate of existingWorkouts.find(...)
ExistingWorkoutTest(uw, workoutId, scheduledDate) == uw.workoutId = workoutId

\* workoutId compared as a string with a number: === never holds
IsDuplicate_Never(existingWorkouts, workoutId, scheduledDate) == FALSE

\* existingWorkouts.some(...)
IsDuplicate(existingWorkouts, workoutId, scheduledDate) ==
    \E i \in 1..Len(existingWorkouts) :
        SameWorkoutSameDay(existingWorkouts[i], workoutId, scheduledDate)

\* schema.parse accepts the workoutId: z.number().int().positive()
\* (scheduledFor is any string: the transform never fails)
ScheduleSchemaAccepts(workoutId) == workoutId > 0

Schedule(userId, workoutId, str) ==
    LET scheduledFor == NewDate(str)
        existingWorkouts == getUserWorkoutsByUserId(userWorkouts, workouts, userId)
        isDuplicate == IsDuplicate(existingWorkouts, workoutId, scheduledFor)
    IN
    /\ IF ~ScheduleSchemaAccepts(workoutId)
       THEN /\ resp' = Reply("schedule", 400, Undefined)
            /\ UNCHANGED store
       ELSE IF getWorkout(workouts, workoutId) = Undefined
       THEN /\ resp' = Reply("schedule", 404, Undefined)
            /\ UNCHANGED store
       ELSE IF isDuplicate
       THEN /\ resp' = Reply("schedule", 200, Find(existingWorkouts,
                             LAMBDA uw : ExistingWorkoutTest(uw, workoutId, scheduledFor)))
            /\ UNCHANGED store
       ELSE LET userWorkout == NewUserWorkout(
                    [userId |-> userId, workoutId |-> workoutId,
                     scheduledFor |-> scheduledFor], userWorkoutIdCounter) IN
            /\ userWorkoutIdCounter <= MaxAssignments
            /\ userWorkoutIdCounter' = userWorkoutIdCounter + 1
            /\ userWorkouts' = MapSet(userWorkouts, userWorkoutIdCounter, userWorkout)
            /\ resp' = Reply("schedule", 201, userWorkout)
            /\ UNCHANGED <<users, pets, catalogue, userIdCounter, petIdCounter>>
    /\ UNCHANGED <<now, procs, careCount, client>>

----------------------------------------------------------------------------
(* POST /api/user-workouts/:id/complete *)

\* the check left out: no assignment counts as completed
AlreadyCompleted_Never(userWorkoutWithDetails) == FALSE

\* if (userWorkoutWithDetails.completed)
AlreadyCompleted(userWorkoutWithDetails) == userWorkoutWithDetails.completed

\* const xpGain = Math.round(workout.calories / 5)
XpGain(workout) == MathRound(workout.calories, 5)

\* the completion stamped as play time as well
WorkoutPetUpdates_Played(pet, workout) ==
    [xp |-> pet.xp + XpGain(workout),
     happiness |-> Min(pet.happiness + 10, 100),
     health |-> Min(pet.health + 5, 100),
     lastPlayed |-> now]

\* the updates the handler passes to updatePet
WorkoutPetUpdates(pet, workout) ==
    [xp |-> pet.xp + XpGain(workout),
     happiness |-> Min(pet.happiness + 10, 100),
     health |-> Min(pet.health + 5, 100)]

Complete(id) ==
    LET userWorkoutWithDetails == getUserWorkoutWithDetails(userWorkouts, workouts, id) IN
    /\ IF userWorkoutWithDetails = Undefined
       THEN /\ resp' = Reply("complete", 404, Undefined)
            /\ UNCHANGED store
       ELSE IF AlreadyCompleted(userWorkoutWithDetails)
       THEN /\ resp' = Reply("complete", 400, Undefined)
            /\ UNCHANGED store
       ELSE LET workout == userWorkoutWithDetails.workout
                userId == userWorkoutWithDetails.userId
                pet == getPetByUserId(pets, userId)
            IN
            /\ userWorkouts' = completeUserWorkout(userWorkouts, id, now)
            /\ users' = updateUserStats(users, userId, workout.calories, workout.duration, 1)
            /\ pets' = IF pet # Undefined
                       THEN updatePet(pets, pet.id, WorkoutPetUpdates(pet, workout))
                       ELSE pets
            /\ resp' = Reply("complete", 200, getUserWorkout(userWorkouts', id))
            /\ UNCHANGED <<catalogue, userIdCounter, petIdCounter, userWorkoutIdCounter>>
    /\ UNCHANGED <<now, procs, careCount, client>>

----------------------------------------------------------------------------
(* The inputs of the requests *)

UserIds == {1, 2}
\* workout 4 is not in the store; 0 is not a workout id
WorkoutIds == {0, 1, 2, 4}
UserWorkoutIds == 1..(MaxAssignments + 1)
Usernames == {"user", "bella"}
\* pet 1 is Buddy; pet 2 exists once user 2 has created one
PetIds == {1, 2}
InsertPets == {[userId |-> 1, name |-> "Rex", type |-> "dog"],
               [userId |-> 2, name |-> "Rex", type |-> "dog"],
               [userId |-> 2, name |-> "Tom"]}
\* request bodies of PATCH /api/pets/:id
PatchBodies == {[health |-> 0],
                [hunger |-> 3, happiness |-> 25],
                [hunger |-> 0 - 5],
                [happiness |-> 101, health |-> 50],
                [xp |-> 0, level |-> 2],
                [type |-> "dog"],
                [type |-> "dragon"],
                [lastFed |-> "2025-01-10T08:00"],
                [userId |-> 2, hunger |-> 90],
                [xp |-> 0 - 1],
                [level |-> 0]}

----------------------------------------------------------------------------
(* Requests handled one at a time: users, assignments on one day, completions *)

Next ==
    \/ Tick
    \/ \E username \in Usernames : CreateUser(username)
    \/ \E userId \in UserIds, workoutId \in WorkoutIds :
          Schedule(userId, workoutId, "2025-01-10T08:00")
    \/ \E id \in UserWorkoutIds : Complete(id)

Spec == Init /\ [][Next]_vars

----------------------------------------------------------------------------
(* Requests handled one at a time: the scheduling guard over several days. *)
(* The guard reads no completion field, so one completable assignment (the  *)
(* first created) is enough to put completed records among the existing     *)
(* workouts it scans; completion of every assignment is explored by Spec.   *)

NextSched ==
    \/ \E userId \in UserIds, workoutId \in WorkoutIds, str \in DateStrings :
          Schedule(userId, workoutId, str)
    \/ Complete(1)

SpecSched == Init /\ [][NextSched]_vars

----------------------------------------------------------------------------
(* Requests handled one at a time: pet care, pet updates and completions *)

NextPet ==
    \/ \E insertPet \in InsertPets : CreatePet(insertPet)
    \/ \E petId \in PetIds, body \in PatchBodies : PatchPet(petId, body)
    \/ \E petId \in PetIds : Feed(petId)
    \/ \E petId \in PetIds : Play(petId)
    \/ \E petId \in PetIds : Groom(petId)
    \/ \E userId \in UserIds : Schedule(userId, 1, "2025-01-10T08:00")
    \/ \E id \in UserWorkoutIds : Complete(id)

SpecPet == Init /\ [][NextPet]_vars

----------------------------------------------------------------------------
(* Requests handled one at a time while the clock runs: care of two pets    *)
(* and the completions of the default user                                  *)

\* user 2 gets a pet of the default type
CareInsertPets == {[userId |-> 2, name |-> "Tom"]}
\* PATCH bodies that move a pet off its initial 100/100/100
CareBodies == {[hunger |-> 3, happiness |-> 25],
               [health |-> 0],
               [userId |-> 2, hunger |-> 90]}

NextCare ==
    \/ Tick
    \/ \E insertPet \in CareInsertPets : CreatePet(insertPet)
    \/ \E petId \in PetIds, body \in CareBodies : PatchPet(petId, body)
    \/ \E petId \in PetIds : Feed(petId)
    \/ \E petId \in PetIds : Play(petId)
    \/ \E petId \in PetIds : Groom(petId)
    \/ Schedule(1, 1, "2025-01-10T08:00")
    \/ \E id \in UserWorkoutIds : Complete(id)

SpecCare == Init /\ [][NextCare]_vars

----------------------------------------------------------------------------
(* Requests handled one at a time: statistics of existing and unknown users *)

\* user 3 never exists; user 2 exists once "bella" has registered
StatsUserIds == {1, 2, 3}
\* request bodies of POST /api/users/:id/stats
StatsBodies == {[caloriesBurned |-> 50, activeMinutes |-> 10, completedWorkouts |-> 1],
                [caloriesBurned |-> 120, activeMinutes |-> 20, completedWorkouts |-> 2],
                [caloriesBurned |-> 0, activeMinutes |-> 0, completedWorkouts |-> 0],
                [caloriesBurned |-> 0 - 1, activeMinutes |-> 0, completedWorkouts |-> 0],
                [caloriesBurned |-> 50, activeMinutes |-> 10, completedWorkouts |-> 0 - 1],
                [caloriesBurned |-> 50, activeMinutes |-> 10]}

NextStats ==
    \/ \E username \in Usernames : CreateUser(username)
    \/ \E userId \in StatsUserIds, body \in StatsBodies : PostStats(userId, body)
    \/ \E userId \in UserIds : Schedule(userId, 1, "2025-01-10T08:00")
    \/ \E id \in UserWorkoutIds : Complete(id)

SpecStats == Init /\ [][NextStats]_vars

----------------------------------------------------------------------------
(* Requests handled one at a time: every route that creates a record, and   *)
(* a PATCH whose body names an id                                           *)

\* PATCH bodies with an id key, which updateSchema does not know
IdBodies == {[id |-> 2, xp |-> 5], [id |-> 1, hunger |-> 40]}

NextCreate ==
    \/ \E username \in Usernames : CreateUser(username)
    \/ \E insertPet \in InsertPets : CreatePet(insertPet)
    \/ \E userId \in UserIds, workoutId \in {1, 2} :
          Schedule(userId, workoutId, "2025-01-10T08:00")
    \/ \E petId \in PetIds, body \in IdBodies : PatchPet(petId, body)

SpecCreate == Init /\ [][NextCreate]_vars

----------------------------------------------------------------------------
(* The client: PetProvider's pet query and the message it derives           *)

\* the mock user id of the client
USER_ID == 1

\* the thresholds taken as inclusive
MoodMessage_Inclusive(pet) ==
    IF pet.hunger <= 30 THEN "hungry"
    ELSE IF pet.happiness <= 30 THEN "unhappy"
    ELSE IF pet.health <= 30 THEN "unhealthy"
    ELSE IF pet.happiness >= 80 /\ pet.health >= 80 THEN "happy"
    ELSE "default"

\* the key of petMessages that the effect on [pet] passes to setMessage
MoodMessage(pet) ==
    IF pet.hunger < 30 THEN "hungry"
    ELSE IF pet.happiness < 30 THEN "unhappy"
    ELSE IF pet.health < 30 THEN "unhealthy"
    ELSE IF pet.happiness > 80 /\ pet.health > 80 THEN "happy"
    ELSE "default"

\* the pet query delivers the stored pet of the user and the effect that
\* depends on it sets the message
PetQuery ==
    LET pet == getPetByUserId(pets, USER_ID) IN
    /\ pet # Undefined
    /\ client' = [client EXCEPT !.message = MoodMessage(pet)]
    /\ UNCHANGED <<store, now, resp, procs, careCount>>

\* attribute values on and around the thresholds 30 and 80
MoodGrid == {0, 20, 29, 30, 31, 80, 81, 90, 100}
\* PATCH bodies that put the pet on every point of the grid
MoodBodies == [hunger : MoodGrid, happiness : MoodGrid, health : MoodGrid]

NextMood ==
    \/ \E body \in MoodBodies : PatchPet(1, body)
    \/ PetQuery

SpecMood == Init /\ [][NextMood]_vars

----------------------------------------------------------------------------
(* The client: WorkoutProvider's startWorkout and completeWorkout.          *)
(* A request of the client is in flight while resp = NoResponse and the pc   *)
(* of the client names it; the server handles it in one step and the client *)
(* continues with the response.                                             *)

\* the assignments query (re)fetches GET /api/users/1/workouts
RefetchUserWorkouts ==
    /\ client' = [client EXCEPT
                     !.userWorkouts = getUserWorkoutsByUserId(userWorkouts, workouts, USER_ID)]
    /\ UNCHANGED <<store, now, resp, procs, careCount>>

\* startWorkout(userWorkoutId): the assignment is looked up in the query data
\* and its workout is fetched and becomes the current workout
StartWorkout(userWorkoutId) ==
    LET userWorkout == Find(client.userWorkouts, LAMBDA uw : uw.id = userWorkoutId) IN
    /\ client.pc = "idle"
    /\ client' = IF userWorkout = Undefined THEN client
                 ELSE [client EXCEPT
                          !.currentWorkout = getWorkout(workouts, userWorkout.workoutId),
                          !.startedId = userWorkoutId]
    /\ UNCHANGED <<store, now, resp, procs, careCount>>

\* closeWorkoutTimer()
CloseWorkoutTimer(c) == [c EXCEPT !.pc = "idle", !.currentWorkout = Undefined]

\* completeWorkout() up to its first await: the assignment of the current
\* workout is looked up by workoutId; an uncompleted one is sent to the
\* complete endpoint
CompleteWorkout ==
    LET userWorkout == Find(client.userWorkouts,
                            LAMBDA uw : uw.workoutId = client.currentWorkout.id) IN
    /\ client.pc = "idle"
    /\ client.currentWorkout # Undefined
    /\ IF userWorkout = Undefined
       THEN /\ client' = CloseWorkoutTimer(client)
            /\ UNCHANGED resp
       ELSE IF userWorkout.completed
       THEN UNCHANGED <<client, resp>>
       ELSE /\ client' = [client EXCEPT !.pc = "complete", !.userWorkout = userWorkout]
            /\ resp' = NoResponse
    /\ UNCHANGED <<store, now, procs, careCount>>

\* the server handles the complete request of the client
ServeComplete ==
    /\ client.pc = "complete"
    /\ resp = NoResponse
    /\ Complete(client.userWorkout.id)

\* the stats the client posts after a completion
ClientStatsBody(currentWorkout) ==
    [caloriesBurned |-> currentWorkout.calories,
     activeMinutes |-> MathRound(currentWorkout.duration, 60),
     completedWorkouts |-> 1]

\* completeWorkout() after the complete request: it posts the stats. On a
\* response that is not 2xx, apiRequest (lib/queryClient) either throws, which
\* ends in the catch block, or hands the response back
CompleteWorkoutPostStats ==
    /\ client.pc = "complete"
    /\ resp.op = "complete"
    /\ \/ /\ client' = [client EXCEPT !.pc = "stats"]
          /\ resp' = NoResponse
       \/ /\ resp.status # 200
          /\ client' = CloseWorkoutTimer(client)
          /\ UNCHANGED resp
    /\ UNCHANGED <<store, now, procs, careCount>>

\* the server handles the stats request of the client
ServeStats ==
    /\ client.pc = "stats"
    /\ resp = NoResponse
    /\ PostStats(USER_ID, ClientStatsBody(client.currentWorkout))

\* completeWorkout() after the stats request
CompleteWorkoutDone ==
    /\ client.pc = "stats"
    /\ resp.op = "stats"
    /\ \/ client' = [client EXCEPT !.pc = "idle"]
       \/ /\ resp.status # 200
          /\ client' = CloseWorkoutTimer(client)
    /\ UNCHANGED <<store, now, resp, procs, careCount>>

\* the days the assignments of the default user are scheduled for
ClientDates == {"2025-01-10T08:00", "2025-02-10T08:00"}

\* the default user's assignments are scheduled, and the client starts and
\* completes them
NextClient ==
    \/ Tick
    \/ \E workoutId \in {1, 2}, str \in ClientDates : Schedule(USER_ID, workoutId, str)
    \/ RefetchUserWorkouts
    \/ \E userWorkoutId \in UserWorkoutIds : StartWorkout(userWorkoutId)
    \/ CompleteWorkout
    \/ ServeComplete
    \/ CompleteWorkoutPostStats
    \/ ServeStats
    \/ CompleteWorkoutDone

SpecClient == Init /\ [][NextClient]_vars

----------------------------------------------------------------------------
(* The client: the useTimer hook                                            *)

\* the effect with the pause ignored
TimerEffect_IgnoresPause(old, new) ==
    IF new.isActive = old.isActive /\ new.isPaused = old.isPaused
    THEN new
    ELSE [new EXCEPT !.interval = new.isActive]

\* the timer effect after a render that took the state from old to new: when
\* isActive or isPaused changed, the cleanup clears the interval of the last
\* run and the effect sets a new one if the timer is active and not paused
\* (onComplete is taken to keep its identity between renders)
TimerEffect(old, new) ==
    IF new.isActive = old.isActive /\ new.isPaused = old.isPaused
    THEN new
    ELSE [new EXCEPT !.interval = new.isActive /\ ~new.isPaused]

TimerFrame == UNCHANGED <<store, now, resp, procs, careCount>>

\* reset(newTime)
TimerReset(newTime) ==
    /\ client' = TimerEffect(client, [client EXCEPT !.timeLeft = newTime,
                                                    !.isActive = FALSE,
                                                    !.isPaused = FALSE,
                                                    !.completions = 0])
    /\ TimerFrame

\* start()
TimerStart ==
    /\ client' = TimerEffect(client, [client EXCEPT !.isActive = TRUE, !.isPaused = FALSE])
    /\ TimerFrame

\* pause()
TimerPause ==
    /\ client' = TimerEffect(client, [client EXCEPT !.isPaused = TRUE])
    /\ TimerFrame

\* resume()
TimerResume ==
    /\ client' = TimerEffect(client, [client EXCEPT !.isPaused = FALSE])
    /\ TimerFrame

\* onComplete called by every tick
TimerTick_CallsEveryTick ==
    /\ client.interval
    /\ client.completions < MaxOnComplete
    /\ IF client.timeLeft <= 1
       THEN client' = [client EXCEPT !.interval = FALSE,
                                     !.completions = @ + 1,
                                     !.timeLeft = 0]
       ELSE client' = [client EXCEPT !.timeLeft = @ - 1, !.completions = @ + 1]
    /\ TimerFrame

\* the callback of the interval
TimerTick ==
    /\ client.interval
    /\ IF client.timeLeft <= 1
       THEN /\ client.completions < MaxOnComplete
            /\ client' = [client EXCEPT !.interval = FALSE,
                                        !.completions = @ + 1,
                                        !.timeLeft = 0]
       ELSE client' = [client EXCEPT !.timeLeft = @ - 1]
    /\ TimerFrame

\* reset() without an argument takes initialTime
NextTimer ==
    \/ \E newTime \in 0..MaxTime : TimerReset(newTime)
    \/ TimerReset(InitialTime)
    \/ TimerStart
    \/ TimerPause
    \/ TimerResume
    \/ TimerTick

SpecTimer == Init /\ [][NextTimer]_vars

\* an interval that stays set fires
SpecTimerFair == SpecTimer /\ WF_vars(TimerTick)

----------------------------------------------------------------------------
(* storage.updatePet called directly, with any partial set of fields *)

\* every record over a subset of the fields with values in vals
Partial(fields, vals) == UNION {[S -> vals] : S \in SUBSET fields}

AnyUpdates ==
    Partial({"health", "hunger", "happiness"}, {0 - 5, 0, 50, 105})
        \cup {[xp |-> 7], [type |-> "fox", level |-> 3]}

StorageUpdatePet(id, updates) ==
    /\ pets' = updatePet(pets, id, updates)
    /\ resp' = Reply("updatePet", 0, getPet(pets', id))
    /\ UNCHANGED <<users, catalogue, userWorkouts, userIdCounter, petIdCounter,
                   userWorkoutIdCounter, now, procs, careCount, client>>

NextStorage == \E id \in PetIds, updates \in AnyUpdates : StorageUpdatePet(id, updates)

SpecStorage == Init /\ [][NextStorage]_vars

----------------------------------------------------------------------------
(* POST /api/user-workouts/:id/complete, one step per await.               *)
(* Every storage method reads its map when it is called and resumes after  *)
(* an await, so the handlers of two requests in flight interleave between  *)
(* a read and the write that follows it.                                   *)

Goto(p, pc, changes) ==
    procs' = [procs EXCEPT ![p] =
                 [f \in DOMAIN @ |-> IF f = "pc" THEN pc
                                     ELSE IF f \in DOMAIN changes THEN changes[f]
                                     ELSE @[f]]]

Respond(p, id, status, body) ==
    procs' = [procs EXCEPT ![p] =
                 [Idle EXCEPT !.pc = "done", !.id = id, !.status = status, !.body = body]]

\* the handler starts: getUserWorkoutWithDetails calls getUserWorkout
\* (each of the two clients sends one request)
CompleteStart(p, id) ==
    /\ procs[p].pc = "idle"
    /\ procs' = [procs EXCEPT ![p] =
                    [Idle EXCEPT !.pc = "getUserWorkout", !.id = id,
                                 !.userWorkout = getUserWorkout(userWorkouts, id)]]
    /\ UNCHANGED <<store, now, resp, careCount, client>>

\* getUserWorkoutWithDetails resumes and calls getWorkout
CompleteGetWorkout(p) ==
    LET my == procs[p] IN
    /\ my.pc = "getUserWorkout"
    /\ IF my.userWorkout = Undefined
       THEN Respond(p, my.id, 404, Undefined)
       ELSE LET workout == getWorkout(workouts, my.userWorkout.workoutId) IN
            Goto(p, "getWorkout",
                 [details |-> IF workout = Undefined THEN Undefined
                              ELSE WithDetails(my.userWorkout, workout)])
    /\ UNCHANGED <<store, now, resp, careCount, client>>

\* the handler has the details, checks them and calls completeUserWorkout,
\* which calls getUserWorkout
CompleteCheck(p) ==
    LET my == procs[p] IN
    /\ my.pc = "getWorkout"
    /\ IF my.details = Undefined
       THEN Respond(p, my.id, 404, Undefined)
       ELSE IF AlreadyCompleted(my.details)
       THEN Respond(p, my.id, 400, Undefined)
       ELSE Goto(p, "completeUserWorkout",
                 [userWorkout |-> getUserWorkout(userWorkouts, my.id)])
    /\ UNCHANGED <<store, now, resp, careCount, client>>

\* completeUserWorkout resumes and writes the completed assignment
CompleteWrite(p) ==
    LET my == procs[p] IN
    /\ my.pc = "completeUserWorkout"
    /\ IF my.userWorkout = Undefined
       THEN /\ Goto(p, "completed", [completedUserWorkout |-> Undefined])
            /\ UNCHANGED userWorkouts
       ELSE LET completedUserWorkout == Completed(my.userWorkout, now) IN
            /\ userWorkouts' = MapSet(userWorkouts, my.id, completedUserWorkout)
            /\ Goto(p, "completed", [completedUserWorkout |-> completedUserWorkout])
    /\ UNCHANGED <<users, pets, catalogue, userIdCounter, petIdCounter,
                   userWorkoutIdCounter, now, resp, careCount, client>>

\* the handler calls updateUserStats, which calls getUser
CompleteGetUser(p) ==
    LET my == procs[p] IN
    /\ my.pc = "completed"
    /\ Goto(p, "getUser", [user |-> getUser(users, my.details.userId)])
    /\ UNCHANGED <<store, now, resp, careCount, client>>

\* updateUserStats resumes and writes the updated user
CompleteWriteStats(p) ==
    LET my == procs[p]
        workout == my.details.workout
    IN
    /\ my.pc = "getUser"
    /\ users' = IF my.user = Undefined THEN users
                ELSE MapSet(users, my.details.userId,
                            StatsAdded(my.user, workout.calories, workout.duration, 1))
    /\ Goto(p, "updateUserStats", << >>)
    /\ UNCHANGED <<pets, catalogue, userWorkouts, userIdCounter, petIdCounter,
                   userWorkoutIdCounter, now, resp, careCount, client>>

\* the handler calls getPetByUserId
CompleteGetPetByUserId(p) ==
    LET my == procs[p] IN
    /\ my.pc = "updateUserStats"
    /\ Goto(p, "getPetByUserId", [pet |-> getPetByUserId(pets, my.details.userId)])
    /\ UNCHANGED <<store, now, resp, careCount, client>>

\* the handler has the pet: without one it responds, with one it calls
\* updatePet, which calls getPet
CompleteGetPet(p) ==
    LET my == procs[p] IN
    /\ my.pc = "getPetByUserId"
    /\ IF my.pet = Undefined
       THEN Respond(p, my.id, 200, my.completedUserWorkout)
       ELSE Goto(p, "getPet",
                 [updates |-> WorkoutPetUpdates(my.pet, my.details.workout),
                  pet |-> getPet(pets, my.pet.id)])
    /\ UNCHANGED <<store, now, resp, careCount, client>>

\* updatePet resumes and writes the updated pet; the handler responds
CompleteWritePet(p) ==
    LET my == procs[p] IN
    /\ my.pc = "getPet"
    /\ pets' = IF my.pet = Undefined THEN pets
               ELSE MapSet(pets, my.pet.id, PetUpdated(my.pet, my.updates))
    /\ Respond(p, my.id, 200, my.completedUserWorkout)
    /\ UNCHANGED <<users, catalogue, userWorkouts, userIdCounter, petIdCounter,
                   userWorkoutIdCounter, now, resp, careCount, client>>

NextConc ==
    \/ Tick
    \/ \E workoutId \in {1, 2} : Schedule(1, workoutId, "2025-01-10T08:00")
    \/ \E p \in Procs, id \in UserWorkoutIds : CompleteStart(p, id)
    \/ \E p \in Procs : CompleteGetWorkout(p)
    \/ \E p \in Procs : CompleteCheck(p)
    \/ \E p \in Procs : CompleteWrite(p)
    \/ \E p \in Procs : CompleteGetUser(p)
    \/ \E p \in Procs : CompleteWriteStats(p)
    \/ \E p \in Procs : CompleteGetPetByUserId(p)
    \/ \E p \in Procs : CompleteGetPet(p)
    \/ \E p \in Procs : CompleteWritePet(p)

SpecConc == Init /\ [][NextConc]_vars

----------------------------------------------------------------------------
(* POST /api/pets/:id/feed, /play and /groom, one step per await.          *)
(* The handler awaits storage.getPet, computes the updates from the pet it  *)
(* got and calls storage.updatePet, which reads the pet again, awaits and   *)
(* writes the spread of what it read.                                       *)

CareOps == {"feed", "play", "groom"}

\* the updates a care handler computes from the pet it read
CareUpdates(op, pet, t) ==
    IF op = "feed" THEN FeedUpdates(pet, t)
    ELSE IF op = "play" THEN PlayUpdates(pet, t)
    ELSE GroomUpdates(pet, t)

CareRespond(p, status, body) ==
    procs' = [procs EXCEPT ![p] =
                 [Idle EXCEPT !.pc = "done", !.op = procs[p].op, !.id = procs[p].id,
                              !.status = status, !.body = body]]

\* the handler starts and calls storage.getPet
\* (each of the two clients sends one request)
CareStart(p, op, petId) ==
    /\ procs[p].pc = "idle"
    /\ procs' = [procs EXCEPT ![p] =
                    [Idle EXCEPT !.pc = "care:getPet", !.op = op, !.id = petId,
                                 !.pet = getPet(pets, petId)]]
    /\ UNCHANGED <<store, now, resp, careCount, client>>

\* the handler has the pet: without one it responds 404, with one it
\* computes the updates and calls updatePet, which calls getPet
CareGetPet(p) ==
    LET my == procs[p] IN
    /\ my.pc = "care:getPet"
    /\ IF my.pet = Undefined
       THEN CareRespond(p, 404, Undefined)
       ELSE Goto(p, "care:updatePet",
                 [updates |-> CareUpdates(my.op, my.pet, now),
                  pet |-> getPet(pets, my.id)])
    /\ UNCHANGED <<store, now, resp, careCount, client>>

\* updatePet resumes and writes the updated pet; the handler responds
CareWritePet(p) ==
    LET my == procs[p] IN
    /\ my.pc = "care:updatePet"
    /\ IF my.pet = Undefined
       THEN /\ CareRespond(p, 404, Undefined)
            /\ UNCHANGED pets
       ELSE LET updatedPet == PetUpdated(my.pet, my.updates) IN
            /\ pets' = MapSet(pets, my.id, updatedPet)
            /\ CareRespond(p, 200, updatedPet)
    /\ UNCHANGED <<users, catalogue, userWorkouts, userIdCounter, petIdCounter,
                   userWorkoutIdCounter, now, resp, careCount, client>>

\* PATCH bodies that set the levels the care requests start from
RaceBodies == {[hunger |-> 0], [hunger |-> 3, happiness |-> 50], [hunger |-> 60],
               [hunger |-> 70, health |-> 40], [hunger |-> 90, happiness |-> 90]}

\* the pet is patched while no care request is in flight, then the care
\* requests of the two clients run at once
NextRace ==
    \/ Tick
    \/ /\ \A p \in Procs : procs[p].pc = "idle"
       /\ \E body \in RaceBodies : PatchPet(1, body)
    \/ \E p \in Procs, op \in CareOps, petId \in PetIds : CareStart(p, op, petId)
    \/ \E p \in Procs : CareGetPet(p)
    \/ \E p \in Procs : CareWritePet(p)

SpecRace == Init /\ [][NextRace]_vars

----------------------------------------------------------------------------
(* What the properties below speak of *)

\* the completed assignments of user u
CompletedOf(u) ==
    {i \in DOMAIN userWorkouts : userWorkouts[i].userId = u /\ userWorkouts[i].completed}

RECURSIVE XpOf(_)
\* the xp that completing each assignment of S once is worth
XpOf(S) ==
    IF S = {} THEN 0
    ELSE LET i == CHOOSE x \in S : TRUE IN
         MathRound(workouts[userWorkouts[i].workoutId].calories, 5) + XpOf(S \ {i})

RECURSIVE CaloriesOf(_)
CaloriesOf(S) ==
    IF S = {} THEN 0
    ELSE LET i == CHOOSE x \in S : TRUE IN
         workouts[userWorkouts[i].workoutId].calories + CaloriesOf(S \ {i})

\* two Dates fall on the same calendar day
SameCalendarDay(a, b) ==
    /\ a.valid /\ b.valid
    /\ a.year = b.year /\ a.month = b.month /\ a.date = b.date

\* user u has an assignment of workout w on the calendar day of d
AssignedOn(u, w, d) ==
    \E i \in DOMAIN userWorkouts :
        /\ userWorkouts[i].userId = u
        /\ userWorkouts[i].workoutId = w
        /\ SameCalendarDay(userWorkouts[i].scheduledFor, d)

InRange(pet) ==
    /\ pet.health \in 0..100
    /\ pet.hunger \in 0..100
    /\ pet.happiness \in 0..100

----------------------------------------------------------------------------
(* C1 *)

\* a complete request on an assignment that is already completed is answered
\* 400 and changes no assignment, user or pet
C1_RejectedStep ==
    \A id \in UserWorkoutIds :
        (Complete(id) /\ id \in DOMAIN userWorkouts /\ userWorkouts[id].completed)
            => /\ resp'.status = 400
               /\ userWorkouts' = userWorkouts
               /\ users' = users
               /\ pets' = pets

\* the default user and the pet of the default user hold exactly one award for
\* each completed assignment of that user
C1_AwardedOnce ==
    /\ users[1].completedWorkouts = Cardinality(CompletedOf(1))
    /\ users[1].caloriesBurned = CaloriesOf(CompletedOf(1))
    /\ pets[1].xp = XpOf(CompletedOf(1))

\* C1: completing an assignment that is already completed is rejected with 400
\* and is a no-op, so that over any sequence of complete requests the stats and
\* the xp of an assignment are awarded exactly once
C1_RecompletionIsNoOp == []C1_AwardedOnce /\ [][C1_RejectedStep]_vars

\* workout 1 (120 calories) was completed, a second complete request got 400,
\* and the pet holds 24 xp
C1_Witness ==
    /\ resp.op = "complete" /\ resp.status = 400
    /\ \E i \in CompletedOf(1) : userWorkouts[i].workoutId = 1
    /\ Cardinality(CompletedOf(1)) = 1
    /\ pets[1].xp = 24

----------------------------------------------------------------------------
(* C2 *)

\* both requests were answered 200 for the same assignment
BothSucceeded ==
    /\ procs[1].pc = "done" /\ procs[2].pc = "done"
    /\ procs[1].status = 200 /\ procs[2].status = 200
    /\ procs[1].id = procs[2].id

\* C2: when two complete requests for one assignment interleave at their await
\* points, the user's stats and the pet's xp are awarded at most once for each
\* completed assignment, and at most one of the two requests succeeds
C2_AwardedOnceWhenInterleaved ==
    /\ users[1].completedWorkouts <= Cardinality(CompletedOf(1))
    /\ users[1].caloriesBurned <= CaloriesOf(CompletedOf(1))
    /\ pets[1].xp <= XpOf(CompletedOf(1))
    /\ ~BothSucceeded

----------------------------------------------------------------------------
(* C3 *)

\* C3: in every state reached by pet creations, feed, play, groom, PATCH and
\* complete requests, health, hunger and happiness of every stored pet are in
\* 0..100
C3_PetsInRange == \A id \in DOMAIN pets : InRange(pets[id])

\* a pet was patched to hunger 3 and played with: its hunger sits on the floor
C3_Witness ==
    /\ resp.op = "play" /\ resp.status = 200
    /\ \E id \in DOMAIN pets : pets[id].hunger = 0 /\ pets[id].happiness = 40

----------------------------------------------------------------------------
(* C4 *)

\* C4: storage.updatePet, for any partial set of fields with any integer
\* values, leaves health, hunger and happiness of the stored pet in 0..100
C4_UpdatePetClampsBothBounds ==
    /\ \A id \in DOMAIN pets : pets[id].health >= 0 /\ pets[id].health <= 100
    /\ \A id \in DOMAIN pets : pets[id].hunger >= 0 /\ pets[id].hunger <= 100
    /\ \A id \in DOMAIN pets : pets[id].happiness >= 0 /\ pets[id].happiness <= 100
    /\ (resp.op = "updatePet" /\ resp.body # Undefined) => InRange(resp.body)

----------------------------------------------------------------------------
(* C5 *)

\* C5: no two stored assignments have the same userId, the same workoutId and
\* a scheduledFor on the same calendar day
C5_OnePerUserWorkoutDay ==
    \A i, j \in DOMAIN userWorkouts :
        (/\ userWorkouts[i].userId = userWorkouts[j].userId
         /\ userWorkouts[i].workoutId = userWorkouts[j].workoutId
         /\ SameCalendarDay(userWorkouts[i].scheduledFor, userWorkouts[j].scheduledFor))
            => i = j

\* a schedule request was answered with an existing assignment while the
\* user holds the same workout twice (on two days), one of them completed
C5_Witness ==
    /\ resp.op = "schedule" /\ resp.status = 200
    /\ \E i, j \in DOMAIN userWorkouts :
          /\ i # j
          /\ userWorkouts[i].userId = userWorkouts[j].userId
          /\ userWorkouts[i].workoutId = userWorkouts[j].workoutId
          /\ userWorkouts[i].completed

----------------------------------------------------------------------------
(* C6 *)

\* a schedule request answered 200 carries an assignment of the requesting
\* user for the requested workout on the requested day
C6_DuplicateStep ==
    \A u \in UserIds, w \in WorkoutIds, str \in DateStrings :
        (Schedule(u, w, str) /\ resp'.status = 200)
            => /\ resp'.body # Undefined
               /\ resp'.body.id \in DOMAIN userWorkouts
               /\ resp'.body.userId = u
               /\ resp'.body.workoutId = w
               /\ SameCalendarDay(resp'.body.scheduledFor, NewDate(str))

\* C6: the assignment a duplicate schedule request for (u, w, d) is answered
\* with is the stored assignment of u for w whose scheduledFor falls on the
\* calendar day of d, whatever else u has been assigned
C6_DuplicateReturnsSameDayAssignment == [][C6_DuplicateStep]_vars

----------------------------------------------------------------------------
(* C7 *)

\* a schedule request that duplicates a same-day assignment is answered 200 and
\* leaves every map and every id counter as it was
C7_DuplicateStep ==
    \A u \in UserIds, w \in WorkoutIds, str \in DateStrings :
        (AssignedOn(u, w, NewDate(str)) /\ Schedule(u, w, str))
            => /\ resp'.status = 200
               /\ userWorkouts' = userWorkouts
               /\ userWorkoutIdCounter' = userWorkoutIdCounter
               /\ users' = users /\ pets' = pets /\ workouts' = workouts

\* C7: a duplicate schedule request is idempotent on the store: 200, no new
\* assignment, the id counter not advanced, no assignment changed
C7_DuplicateIsIdempotent == [][C7_DuplicateStep]_vars

\* a duplicate was answered 200 while the user holds two assignments
C7_Witness ==
    /\ resp.op = "schedule" /\ resp.status = 200
    /\ \E i, j \in DOMAIN userWorkouts :
          i # j /\ userWorkouts[i].userId = userWorkouts[j].userId
    /\ userWorkoutIdCounter = 3

----------------------------------------------------------------------------
(* C8 *)

\* a schedule request for a known workout that the user does not hold on that
\* day is answered 201 and adds exactly one assignment, under a fresh id
C8_CreateStep ==
    \A u \in UserIds, w \in WorkoutIds, str \in DateStrings :
        (w \in DOMAIN workouts /\ ~AssignedOn(u, w, NewDate(str)) /\ Schedule(u, w, str))
            => LET id == resp'.body.id IN
               /\ resp'.status = 201
               /\ id \notin DOMAIN userWorkouts
               /\ DOMAIN userWorkouts' = DOMAIN userWorkouts \cup {id}
               /\ \A i \in DOMAIN userWorkouts : userWorkouts'[i] = userWorkouts[i]
               /\ userWorkouts'[id] = resp'.body
               /\ userWorkouts'[id].userId = u
               /\ userWorkouts'[id].workoutId = w
               /\ userWorkouts'[id].scheduledFor = NewDate(str)
               /\ userWorkouts'[id].completed = FALSE
               /\ userWorkouts'[id].completedAt = Null

\* C8: scheduling (u, w, d) when u has no assignment of w on day d creates
\* exactly one new assignment (fresh id, completed=false, completedAt=null)
\* and answers 201, so two different days give two assignments
C8_NewDayCreatesAssignment == [][C8_CreateStep]_vars

\* the same user holds the same workout on two different calendar days, the
\* second one just created
C8_Witness ==
    /\ resp.op = "schedule" /\ resp.status = 201
    /\ \E i, j \in DOMAIN userWorkouts :
          /\ i < j /\ resp.body.id = j
          /\ userWorkouts[i].userId = userWorkouts[j].userId
          /\ userWorkouts[i].workoutId = userWorkouts[j].workoutId
          /\ userWorkouts[i].scheduledFor.valid /\ userWorkouts[j].scheduledFor.valid
          /\ ~SameCalendarDay(userWorkouts[i].scheduledFor, userWorkouts[j].scheduledFor)

----------------------------------------------------------------------------
(* C9 *)

\* a completed assignment stays completed with the completedAt it has, and
\* completed holds exactly when completedAt is not null
C9_LifecycleStep ==
    /\ \A i \in DOMAIN userWorkouts :
          userWorkouts[i].completed
              => /\ i \in DOMAIN userWorkouts'
                 /\ userWorkouts'[i].completed
                 /\ userWorkouts'[i].completedAt = userWorkouts[i].completedAt
    /\ \A i \in DOMAIN userWorkouts' :
          userWorkouts'[i].completed <=> userWorkouts'[i].completedAt # Null

\* C9: Scheduled -> Completed is irreversible in every behaviour: once
\* completed is true it stays true, completedAt is set at that transition and
\* never changes afterwards, and completed holds exactly when completedAt is set
C9_CompletedIsTerminal == [][C9_LifecycleStep]_vars

----------------------------------------------------------------------------
(* C10 *)

\* a successful complete request adds the calories and the duration of the
\* workout and one completed workout to the owner, and changes nothing else of
\* the owner and nothing of any other user
C10_StatsStep ==
    \A id \in UserWorkoutIds :
        (/\ Complete(id) /\ resp'.status = 200
         /\ userWorkouts[id].userId \in DOMAIN users)
            => LET u == userWorkouts[id].userId
                   w == workouts[userWorkouts[id].workoutId]
               IN
               /\ DOMAIN users' = DOMAIN users
               /\ users'[u].caloriesBurned = users[u].caloriesBurned + w.calories
               /\ users'[u].activeMinutes = users[u].activeMinutes + w.duration
               /\ users'[u].completedWorkouts = users[u].completedWorkouts + 1
               /\ users'[u].streak = users[u].streak
               /\ users'[u].username = users[u].username
               /\ users'[u].id = users[u].id
               /\ users'[u].password = users[u].password
               /\ users'[u].createdAt = users[u].createdAt
               /\ \A v \in DOMAIN users \ {u} : users'[v] = users[v]

\* C10: a successful complete request changes the owner's statistics by
\* exactly +calories, +duration, +1 and leaves the owner's other fields and
\* every other user's record unchanged
C10_StatsAddedExactly == [][C10_StatsStep]_vars

\* there are two users and user 2 has just completed a second workout
C10_Witness ==
    /\ resp.op = "complete" /\ resp.status = 200 /\ resp.body.userId = 2
    /\ 2 \in DOMAIN users
    /\ users[2].completedWorkouts = 2

----------------------------------------------------------------------------
(* C11 *)

\* the pets of user u
PetsOf(u) == {k \in DOMAIN pets : pets[k].userId = u}

\* the fields of a pet that a completion must leave alone
CompletionFrame == {"id", "userId", "name", "type", "hunger", "level",
                    "lastFed", "lastPlayed", "lastGroomed"}

\* a complete request on an uncompleted assignment whose owner has a pet is
\* answered 200 and moves that pet by the award, and no other field or pet
C11_PetStep ==
    \A id \in UserWorkoutIds :
        (/\ id \in DOMAIN userWorkouts
         /\ ~userWorkouts[id].completed
         /\ PetsOf(userWorkouts[id].userId) # {}
         /\ Complete(id))
            => LET calories == workouts[userWorkouts[id].workoutId].calories IN
               /\ resp'.status = 200
               /\ DOMAIN pets' = DOMAIN pets
               /\ \A k \in DOMAIN pets \ PetsOf(userWorkouts[id].userId) :
                      pets'[k] = pets[k]
               /\ \A k \in PetsOf(userWorkouts[id].userId) :
                      \* the integer nearest to calories / 5
                      /\ \E g \in 0..calories :
                            /\ 5 * g - calories \in (0 - 2)..2
                            /\ pets'[k].xp = pets[k].xp + g
                      /\ pets'[k].happiness =
                            (IF pets[k].happiness + 10 > 100 THEN 100
                             ELSE pets[k].happiness + 10)
                      /\ pets'[k].health =
                            (IF pets[k].health + 5 > 100 THEN 100
                             ELSE pets[k].health + 5)
                      /\ DOMAIN pets'[k] = DOMAIN pets[k]
                      /\ \A f \in CompletionFrame : pets'[k][f] = pets[k][f]

\* C11: a successful complete request for a user who has a pet changes that
\* pet by exactly xp += round(calories/5), happiness = min(happiness+10, 100),
\* health = min(health+5, 100) and leaves its hunger, level, type, lastFed,
\* lastPlayed and lastGroomed (and every other pet) unchanged
C11_CompletionAwardsPet == [][C11_PetStep]_vars

\* at time 1 the default user completed workout 1 (120 calories) with a pet
\* patched to happiness 25 and health 0 at time 0: 24 xp, happiness 35,
\* health 5, and the care timestamps still at 0
C11_Witness ==
    /\ resp.op = "complete" /\ resp.status = 200
    /\ now = 1
    /\ pets[1].xp = 24 /\ pets[1].happiness = 35 /\ pets[1].health = 5
    /\ pets[1].hunger = 3
    /\ pets[1].lastPlayed = 0

----------------------------------------------------------------------------
(* C12 *)

\* a complete request on an uncompleted assignment whose owner exists and has
\* no pet is answered 200, completes the assignment, adds the award to the
\* owner and leaves the pets as they were
C12_NoPetStep ==
    \A id \in UserWorkoutIds :
        (/\ id \in DOMAIN userWorkouts
         /\ ~userWorkouts[id].completed
         /\ userWorkouts[id].userId \in DOMAIN users
         /\ PetsOf(userWorkouts[id].userId) = {}
         /\ Complete(id))
            => LET u == userWorkouts[id].userId
                   w == workouts[userWorkouts[id].workoutId]
               IN
               /\ resp'.status = 200
               /\ userWorkouts'[id].completed
               /\ users'[u].caloriesBurned = users[u].caloriesBurned + w.calories
               /\ users'[u].activeMinutes = users[u].activeMinutes + w.duration
               /\ users'[u].completedWorkouts = users[u].completedWorkouts + 1
               /\ pets' = pets
               /\ petIdCounter' = petIdCounter

\* C12: completing an assignment whose owner has no pet succeeds with 200: the
\* assignment becomes completed, the owner's stats are updated, and no pet is
\* created or modified
C12_NoPetIsTolerated == [][C12_NoPetStep]_vars

\* user 2, who has no pet, has just completed a first workout, and the pet of
\* the default user has no xp
C12_Witness ==
    /\ resp.op = "complete" /\ resp.status = 200 /\ resp.body.userId = 2
    /\ 2 \in DOMAIN users
    /\ users[2].completedWorkouts = 1
    /\ PetsOf(2) = {}
    /\ pets[1].xp = 0

----------------------------------------------------------------------------
(* C13 *)

\* a complete request for an id that is not stored, or whose workout is not
\* stored, is answered 404 and changes nothing in the store
C13_NotFoundStep ==
    \A id \in UserWorkoutIds :
        (/\ \/ id \notin DOMAIN userWorkouts
            \/ userWorkouts[id].workoutId \notin DOMAIN workouts
         /\ Complete(id))
            => /\ resp'.status = 404
               /\ userWorkouts' = userWorkouts
               /\ users' = users
               /\ pets' = pets
               /\ workouts' = workouts
               /\ userIdCounter' = userIdCounter
               /\ petIdCounter' = petIdCounter
               /\ userWorkoutIdCounter' = userWorkoutIdCounter

\* C13: a complete request for an assignment id that does not exist (or whose
\* workout cannot be resolved) returns 404 and short-circuits: no assignment,
\* user or pet record is changed
C13_UnknownAssignmentIs404 == [][C13_NotFoundStep]_vars

\* after one completion of the default user, a complete request for an id
\* that is not stored was answered 404 and the award is still counted once
C13_Witness ==
    /\ resp.op = "complete" /\ resp.status = 404
    /\ DOMAIN userWorkouts = {1}
    /\ userWorkouts[1].completed
    /\ users[1].completedWorkouts = 1

----------------------------------------------------------------------------
(* C14 *)

\* a complete request on an uncompleted assignment either reports a failure
\* and leaves the assignment uncompleted, or answers 200 with the completed
\* flag, the owner's stats and the owner's pet all updated
C14_AllOrNothingStep ==
    \A id \in UserWorkoutIds :
        (/\ id \in DOMAIN userWorkouts
         /\ ~userWorkouts[id].completed
         /\ Complete(id))
            => LET u == userWorkouts[id].userId
                   w == workouts[userWorkouts[id].workoutId]
               IN
               /\ u \notin DOMAIN users
                     => /\ resp'.status # 200
                        /\ userWorkouts' = userWorkouts
               /\ resp'.status = 200
                     => /\ userWorkouts'[id].completed
                        /\ u \in DOMAIN users
                        /\ users'[u].caloriesBurned = users[u].caloriesBurned + w.calories
                        /\ users'[u].activeMinutes = users[u].activeMinutes + w.duration
                        /\ users'[u].completedWorkouts = users[u].completedWorkouts + 1
                        /\ \A k \in PetsOf(u) : pets'[k].xp > pets[k].xp

\* C14: completion is all-or-nothing for the caller: when the owning user of
\* the assignment does not exist the request reports a failure and the
\* assignment is not left completed, and a 200 response implies that the
\* completed flag, the user stats and the pet (if any) were all updated
C14_CompletionIsAllOrNothing == [][C14_AllOrNothingStep]_vars

----------------------------------------------------------------------------
(* C15 *)

\* handler p has stored the completed flag of its assignment and has not yet
\* stored the award in the owner's stats or in the owner's pet
AwardPending(p) ==
    LET my == procs[p] IN
    /\ my.completedUserWorkout # Undefined
    /\ \/ /\ my.pc \in {"completed", "getUser"}
          /\ my.details.userId \in DOMAIN users \/ PetsOf(my.details.userId) # {}
       \/ /\ my.pc \in {"updateUserStats", "getPetByUserId", "getPet"}
          /\ PetsOf(my.details.userId) # {}

\* handler q takes a step that reads the assignment p has completed, or the
\* user or the pet that p has not yet awarded
ReadsPendingOf(q, p) ==
    \/ CompleteStart(q, procs[p].id)
    \/ /\ procs[p].pc \in {"completed", "getUser"}
       /\ procs[q].details # Undefined
       /\ procs[q].details.userId = procs[p].details.userId
       /\ CompleteGetUser(q)
    \/ /\ procs[q].details # Undefined
       /\ procs[q].details.userId = procs[p].details.userId
       /\ CompleteGetPetByUserId(q) \/ CompleteGetPet(q)

\* no handler reads what another handler has half completed
C15_IsolatedStep ==
    \A p, q \in Procs : (p # q /\ AwardPending(p)) => ~ReadsPendingOf(q, p)

\* C15: while a complete request is being handled, no other request handled
\* concurrently reads a state in which the assignment is already completed
\* and the owner's stats or pet have not yet received that completion's award
C15_NoPartialStateObserved == [][C15_IsolatedStep]_vars

----------------------------------------------------------------------------
(* C16 *)

\* triples (calories, minutes, workouts) passed to updateUserStats
StatsDeltas == {<<50, 10, 1>>, <<120, 20, 2>>, <<0, 0, 0>>, <<7, 3, 0>>}

\* the three counters of a user record
Counters(user) == <<user.caloriesBurned, user.activeMinutes, user.completedWorkouts>>

\* a stats request with three non-negative numbers for a stored user adds
\* them to the counters of that user, returns the updated record and changes
\* nothing else
C16_StatsStep ==
    \A userId \in StatsUserIds, body \in StatsBodies :
        (/\ userId \in DOMAIN users
         /\ DOMAIN body = {"caloriesBurned", "activeMinutes", "completedWorkouts"}
         /\ body.caloriesBurned >= 0 /\ body.activeMinutes >= 0
         /\ body.completedWorkouts >= 0
         /\ PostStats(userId, body))
            => /\ resp'.status = 200
               /\ resp'.body = users'[userId]
               /\ DOMAIN users' = DOMAIN users
               /\ users'[userId].caloriesBurned =
                      users[userId].caloriesBurned + body.caloriesBurned
               /\ users'[userId].activeMinutes =
                      users[userId].activeMinutes + body.activeMinutes
               /\ users'[userId].completedWorkouts =
                      users[userId].completedWorkouts + body.completedWorkouts
               /\ \A f \in {"id", "username", "password", "streak", "createdAt"} :
                      users'[userId][f] = users[userId][f]
               /\ \A v \in DOMAIN users \ {userId} : users'[v] = users[v]
               /\ pets' = pets /\ userWorkouts' = userWorkouts

\* on every stored user, two calls of updateUserStats accumulate and commute
C16_Accumulates ==
    \A id \in DOMAIN users : \A d1, d2 \in StatsDeltas :
        LET once == updateUserStats(users, id, d1[1], d1[2], d1[3])
            twice == updateUserStats(once, id, d1[1], d1[2], d1[3])
            d1d2 == updateUserStats(once, id, d2[1], d2[2], d2[3])
            d2d1 == updateUserStats(updateUserStats(users, id, d2[1], d2[2], d2[3]),
                                    id, d1[1], d1[2], d1[3])
        IN
        /\ Counters(once[id]) = <<users[id].caloriesBurned + d1[1],
                                  users[id].activeMinutes + d1[2],
                                  users[id].completedWorkouts + d1[3]>>
        /\ Counters(twice[id]) = <<users[id].caloriesBurned + 2 * d1[1],
                                   users[id].activeMinutes + 2 * d1[2],
                                   users[id].completedWorkouts + 2 * d1[3]>>
        /\ (Counters(users[id]) = <<0, 0, 0>> /\ d1 = <<50, 10, 1>>)
              => Counters(twice[id]) = <<100, 20, 2>>
        /\ d1d2 = d2d1

\* C16: updateUserStats(id, c, m, w) on an existing user sets the three
\* counters to old + c, old + m, old + w and changes nothing else; applied
\* twice it accumulates ((50,10,1) twice on (0,0,0) gives (100,20,2)), and
\* the result of two calls does not depend on their order
C16_UpdateUserStatsAdds == []C16_Accumulates /\ [][C16_StatsStep]_vars

\* user 2, registered with counters (0,0,0), holds (100,20,2) after the
\* second stats request (50,10,1)
C16_Witness ==
    /\ resp.op = "stats" /\ resp.status = 200
    /\ 2 \in DOMAIN users
    /\ resp.body.id = 2
    /\ Counters(users[2]) = <<100, 20, 2>>
    /\ userWorkouts = << >>

----------------------------------------------------------------------------
(* C17 *)

\* a well-formed stats request for an id that is not stored is answered 404
\* and changes nothing in the store
C17_UnknownUserStep ==
    \A userId \in StatsUserIds, body \in StatsBodies :
        (/\ userId \notin DOMAIN users
         /\ DOMAIN body = {"caloriesBurned", "activeMinutes", "completedWorkouts"}
         /\ \A k \in DOMAIN body : body[k] >= 0
         /\ PostStats(userId, body))
            => /\ resp'.status = 404
               /\ users' = users
               /\ pets' = pets
               /\ workouts' = workouts
               /\ userWorkouts' = userWorkouts
               /\ userIdCounter' = userIdCounter

\* updateUserStats on an id that is not stored returns undefined and leaves
\* the users map as it is
C17_StorageReturnsUndefined ==
    \A id \in StatsUserIds \ DOMAIN users : \A d \in StatsDeltas :
        /\ updateUserStatsResult(users, id, d[1], d[2], d[3]) = Undefined
        /\ updateUserStats(users, id, d[1], d[2], d[3]) = users

\* C17: a stats update for a user id that does not exist fails with NotFound
\* (the storage returns undefined, the route answers 404) and leaves the store
\* unchanged: no user is created and no other user's counters change
C17_UnknownUserIsNotFound ==
    []C17_StorageReturnsUndefined /\ [][C17_UnknownUserStep]_vars

\* with two users stored and counters already raised, a stats request for
\* user 3 was answered 404
C17_Witness ==
    /\ resp.op = "stats" /\ resp.status = 404
    /\ DOMAIN users = {1, 2}
    /\ users[1].completedWorkouts = 2
    /\ users[2].caloriesBurned = 50

----------------------------------------------------------------------------
(* C18 *)

\* no counter of a stored user is lower after a step than before it, and a
\* stats request carrying a negative number is answered 400 and changes no user
C18_MonotoneStep ==
    /\ \A u \in DOMAIN users :
          /\ u \in DOMAIN users'
          /\ users'[u].caloriesBurned >= users[u].caloriesBurned
          /\ users'[u].activeMinutes >= users[u].activeMinutes
          /\ users'[u].completedWorkouts >= users[u].completedWorkouts
    /\ \A userId \in StatsUserIds, body \in StatsBodies :
          ((\E k \in DOMAIN body : body[k] < 0) /\ PostStats(userId, body))
              => resp'.status = 400 /\ users' = users

\* C18: in every behaviour of stats requests and workout completions, the
\* caloriesBurned, activeMinutes and completedWorkouts of each user never
\* decrease from one state to the next (negative values are rejected with 400)
C18_CountersNeverDecrease == [][C18_MonotoneStep]_vars

----------------------------------------------------------------------------
(* C19 *)

\* n raised by d and capped at 100; n lowered by d and floored at 0
Capped(n, d) == IF n + d > 100 THEN 100 ELSE n + d
Floored(n, d) == IF n - d < 0 THEN 0 ELSE n - d

\* a care request on a stored pet is answered 200 with the pet it stored,
\* whose attributes moved by the bounded deltas of the action
C19_CareStep ==
    \A petId \in PetIds :
        petId \in DOMAIN pets =>
            /\ Feed(petId)
                  => /\ resp'.status = 200 /\ resp'.body = pets'[petId]
                     /\ pets'[petId].hunger = Capped(pets[petId].hunger, 20)
            /\ Play(petId)
                  => /\ resp'.status = 200 /\ resp'.body = pets'[petId]
                     /\ pets'[petId].happiness = Capped(pets[petId].happiness, 15)
                     /\ pets'[petId].hunger = Floored(pets[petId].hunger, 5)
            /\ Groom(petId)
                  => /\ resp'.status = 200 /\ resp'.body = pets'[petId]
                     /\ pets'[petId].health = Capped(pets[petId].health, 10)

\* a pet at hunger 90 fed twice in sequence is at hunger 100 after the first
\* meal and after the second
C19_FeedTwice ==
    \A petId \in DOMAIN pets :
        LET pets1 == updatePet(pets, petId, FeedUpdates(getPet(pets, petId), now))
            pets2 == updatePet(pets1, petId, FeedUpdates(getPet(pets1, petId), now))
        IN
        pets[petId].hunger = 90 => pets1[petId].hunger = 100 /\ pets2[petId].hunger = 100

\* C19: feed sets hunger = min(hunger+20, 100); play sets happiness =
\* min(happiness+15, 100) and hunger = max(hunger-5, 0); groom sets health =
\* min(health+10, 100); feeding twice from hunger 90 gives 100 and then 100
C19_CareDeltasAreBounded == []C19_FeedTwice /\ [][C19_CareStep]_vars

\* a pet patched to hunger 90 at time 0 was fed at time 1 and is at hunger 100
C19_Witness ==
    /\ resp.op = "feed" /\ resp.status = 200
    /\ now = 1
    /\ careCount = 2
    /\ resp.body.hunger = 100 /\ resp.body.lastFed = 1
    /\ resp.body.happiness = 100 /\ resp.body.health = 100

----------------------------------------------------------------------------
(* C20 *)

PetFields == {"id", "userId", "name", "type", "health", "hunger", "happiness",
              "level", "xp", "lastFed", "lastPlayed", "lastGroomed"}

\* pet petId keeps every field outside touched, every other pet is kept, and
\* so are the users, the workouts, the assignments and the id counters
OnlyTouches(petId, touched) ==
    /\ DOMAIN pets' = DOMAIN pets
    /\ DOMAIN pets'[petId] = PetFields
    /\ \A f \in PetFields \ touched : pets'[petId][f] = pets[petId][f]
    /\ \A k \in DOMAIN pets \ {petId} : pets'[k] = pets[k]
    /\ users' = users /\ workouts' = workouts /\ userWorkouts' = userWorkouts
    /\ userIdCounter' = userIdCounter /\ petIdCounter' = petIdCounter
    /\ userWorkoutIdCounter' = userWorkoutIdCounter

\* a care request on a stored pet changes only the fields of its action
C20_FrameStep ==
    \A petId \in PetIds :
        petId \in DOMAIN pets =>
            /\ Feed(petId) => OnlyTouches(petId, {"hunger", "lastFed"})
            /\ Play(petId) => OnlyTouches(petId, {"happiness", "hunger", "lastPlayed"})
            /\ Groom(petId) => OnlyTouches(petId, {"health", "lastGroomed"})

\* C20: feed changes only hunger and lastFed; play only happiness, hunger and
\* lastPlayed; groom only health and lastGroomed; xp, level, type, name,
\* userId, the other attributes and timestamps are unchanged, and no other
\* pet, user or assignment changes
C20_CareTouchesOwnFields == [][C20_FrameStep]_vars

\* with two pets stored, a pet patched to health 0 at time 0 was groomed at
\* time 1: health 10, groomed at 1, fed and played at 0
C20_Witness ==
    /\ resp.op = "groom" /\ resp.status = 200
    /\ now = 1
    /\ DOMAIN pets = {1, 2}
    /\ resp.body.health = 10 /\ resp.body.lastGroomed = 1
    /\ resp.body.lastFed = 0 /\ resp.body.lastPlayed = 0

----------------------------------------------------------------------------
(* C21 *)

\* a feed, play, groom or well-formed PATCH request for a pet id that is not
\* stored is answered 404 and changes nothing in the store
C21_UnknownPetStep ==
    \A petId \in PetIds :
        (/\ petId \notin DOMAIN pets
         /\ \/ Feed(petId) \/ Play(petId) \/ Groom(petId)
            \/ \E body \in CareBodies : PatchPet(petId, body))
            => /\ resp'.status = 404
               /\ pets' = pets
               /\ petIdCounter' = petIdCounter
               /\ users' = users /\ workouts' = workouts
               /\ userWorkouts' = userWorkouts

\* C21: a feed, play, groom or PATCH request for a pet id that does not exist
\* returns 404 and leaves the store unchanged: no pet is created or modified
C21_UnknownPetIs404 == [][C21_UnknownPetStep]_vars

\* after the only stored pet was patched, a play request for pet 2 was
\* answered 404
C21_Witness ==
    /\ resp.op = "play" /\ resp.status = 404
    /\ DOMAIN pets = {1}
    /\ pets[1].hunger = 3
    /\ careCount = 1

----------------------------------------------------------------------------
(* C22 *)

\* no stored pet has less xp after a step than before it
C22_XpStep ==
    \A k \in DOMAIN pets : k \in DOMAIN pets' /\ pets'[k].xp >= pets[k].xp

\* C22: across every behaviour of feed, play, groom, PATCH (any valid body,
\* also one that supplies xp) and workout completions, no step lowers the xp
\* of a pet
C22_XpOnlyIncreases == [][C22_XpStep]_vars

----------------------------------------------------------------------------
(* C23 *)

\* every stored pet has a level of at least 1 and an xp of at least 0
C23_LevelAndXp == \A k \in DOMAIN pets : pets[k].level >= 1 /\ pets[k].xp >= 0

\* a pet that a creation request stores starts at level 1 with no xp and
\* with health, hunger and happiness at 100
C23_CreateStep ==
    \A insertPet \in InsertPets :
        (CreatePet(insertPet) /\ resp'.status = 201)
            => LET pet == pets'[resp'.body.id] IN
               /\ resp'.body.id \notin DOMAIN pets
               /\ pet.level = 1 /\ pet.xp = 0
               /\ pet.health = 100 /\ pet.hunger = 100 /\ pet.happiness = 100

\* C23: in every state reachable through the HTTP operations every stored pet
\* has level >= 1 and xp >= 0, a new pet starting at level 1, xp 0 and
\* health, hunger and happiness 100
C23_PetLevelAndXpBounds == []C23_LevelAndXp /\ [][C23_CreateStep]_vars

\* a second pet has just been created while the first one was patched to
\* level 2 and holds the xp of a completion
C23_Witness ==
    /\ resp.op = "createPet" /\ resp.status = 201
    /\ pets[2].level = 1 /\ pets[2].xp = 0
    /\ pets[1].level = 2 /\ pets[1].xp = 24

----------------------------------------------------------------------------
(* C24 *)

\* the mood of (hunger, happiness, health) by the precedence order, each
\* rule carrying the negation of the rules before it
ExpectedMood(hunger, happiness, health) ==
    CASE hunger < 30 -> "hungry"
      [] hunger >= 30 /\ happiness < 30 -> "unhappy"
      [] hunger >= 30 /\ happiness >= 30 /\ health < 30 -> "unhealthy"
      [] hunger >= 30 /\ happiness >= 30 /\ health >= 30
            /\ happiness > 80 /\ health > 80 -> "happy"
      [] OTHER -> "default"

\* the message set by the effect is the mood of the stored pet
C24_MoodStep ==
    PetQuery => client'.message =
                    ExpectedMood(pets[1].hunger, pets[1].happiness, pets[1].health)

\* with two attributes of the stored pet fixed, the mood follows the
\* precedence for every value 0..100 of the third
C24_MoodSweep ==
    LET pet == pets[1] IN
    \A v \in 0..100 :
        /\ MoodMessage([pet EXCEPT !.hunger = v])
              = ExpectedMood(v, pet.happiness, pet.health)
        /\ MoodMessage([pet EXCEPT !.happiness = v])
              = ExpectedMood(pet.hunger, v, pet.health)
        /\ MoodMessage([pet EXCEPT !.health = v])
              = ExpectedMood(pet.hunger, pet.happiness, v)

\* the thresholds: 30 is not below 30 and 80 is not above 80
C24_Boundaries ==
    /\ ExpectedMood(20, 90, 90) = "hungry"
    /\ ExpectedMood(30, 29, 90) = "unhappy"
    /\ ExpectedMood(30, 30, 29) = "unhealthy"
    /\ ExpectedMood(30, 30, 30) = "default"
    /\ ExpectedMood(30, 80, 81) = "default"
    /\ ExpectedMood(30, 81, 80) = "default"
    /\ ExpectedMood(30, 81, 81) = "happy"

\* C24: the mood message follows a first-match-wins precedence for every
\* (hunger, happiness, health) in 0..100: hungry below hunger 30, else unhappy
\* below happiness 30, else unhealthy below health 30, else happy above 80 in
\* happiness and health, else default; exactly one mood for every input, 30
\* and 80 falling to the later branches
C24_MoodPrecedence ==
    [](C24_MoodSweep /\ C24_Boundaries) /\ [][C24_MoodStep]_vars

\* the pet at hunger 20, happiness 90, health 90 is shown as hungry
C24_Witness ==
    /\ client.message = "hungry"
    /\ pets[1].hunger = 20 /\ pets[1].happiness = 90 /\ pets[1].health = 90

----------------------------------------------------------------------------
(* C25 *)

\* both care requests have been answered 200 for pet 1, and the last PATCH
\* before them was answered 200 (its body is the pet they started from)
BothCared(op1, op2) ==
    /\ resp.op = "patch" /\ resp.status = 200
    /\ procs[1].pc = "done" /\ procs[1].op = op1 /\ procs[1].id = 1 /\ procs[1].status = 200
    /\ procs[2].pc = "done" /\ procs[2].op = op2 /\ procs[2].id = 1 /\ procs[2].status = 200

\* two feeds end one or two meals above the start
C25_TwoFeeds ==
    BothCared("feed", "feed") =>
        LET h == resp.body.hunger IN
        pets[1].hunger \in {Min(h + 20, 100), Min(h + 40, 100)}

\* a feed and a play end at one of the two sequential results or at what one
\* of the two wrote from the start value
C25_FeedAndPlay ==
    BothCared("feed", "play") =>
        LET h == resp.body.hunger IN
        pets[1].hunger \in {Max(Min(h + 20, 100) - 5, 0), Min(Max(h - 5, 0) + 20, 100),
                            Min(h + 20, 100), Max(h - 5, 0)}

\* the stored pet is the one the last writer answered with
C25_LastWriteWins ==
    \A op1, op2 \in CareOps :
        BothCared(op1, op2) => pets[1] \in {procs[1].body, procs[2].body}

\* C25: care requests read the pet and later write values computed from what
\* they read: two feeds in flight at once from a hunger h <= 60 end at h + 20
\* or h + 40, a feed and a play end at a sequential result or at the value
\* one of them computed from the start, and the stored pet is always the one
\* written last; the state with h + 20 (one meal lost) is reachable
C25_CareUpdateCanBeLost ==
    C25_TwoFeeds /\ C25_FeedAndPlay /\ C25_LastWriteWins

\* two feeds from h <= 60 were both answered 200 and the pet is one meal up
C25_Witness ==
    /\ BothCared("feed", "feed")
    /\ resp.body.hunger <= 60
    /\ pets[1].hunger = resp.body.hunger + 20

\* a feed and a play were both answered 200 and the hunger the play wrote
\* has been overwritten by the feed's
C25_FeedOverwritesPlay ==
    /\ BothCared("feed", "play")
    /\ resp.body.hunger = 60
    /\ pets[1].hunger = 80

----------------------------------------------------------------------------
(* C26 *)

C26_UnknownWorkoutStep ==
    \A u \in UserIds, w \in WorkoutIds, str \in DateStrings :
        (w > 0 /\ w \notin DOMAIN workouts /\ Schedule(u, w, str))
            => /\ resp'.status = 404
               /\ userWorkouts' = userWorkouts
               /\ UNCHANGED <<store, now>>

\* C26: a schedule request with a well-formed (positive integer) workoutId
\* that is not in the store is answered 404; no assignment is created and
\* nothing in the store changes, whatever assignments the user has
C26_UnknownWorkoutIs404 == [][C26_UnknownWorkoutStep]_vars

\* an unknown workout has been refused while assignments exist
C26_Witness ==
    /\ resp.op = "schedule" /\ resp.status = 404
    /\ \E i \in DOMAIN userWorkouts : userWorkouts[i].userId = 1 /\ userWorkouts[i].completed
    /\ \E i \in DOMAIN userWorkouts : userWorkouts[i].userId = 2

----------------------------------------------------------------------------
(* C27 *)

\* no two stored pets have the same owner
C27_OnePetPerUser ==
    \A i, j \in DOMAIN pets : pets[i].userId = pets[j].userId => i = j

C27_ConflictStep ==
    \A insertPet \in InsertPets :
        ((\E i \in DOMAIN pets : pets[i].userId = insertPet.userId) /\ CreatePet(insertPet))
            => /\ resp'.status = 409
               /\ UNCHANGED store

\* C27: with the default user and pet of the constructor and pet creations
\* handled one at a time, no two stored pets have the same userId, and a
\* creation for a user who has a pet is answered 409 and changes nothing
C27_UserOwnsAtMostOnePet == []C27_OnePetPerUser /\ [][C27_ConflictStep]_vars

\* both users have a pet and a further creation has been refused
C27_Witness ==
    /\ resp.op = "createPet" /\ resp.status = 409
    /\ \E i, j \in DOMAIN pets : pets[i].userId = 1 /\ pets[j].userId = 2

----------------------------------------------------------------------------
(* C28 *)

\* C28: the body of the 200 response of a complete request is the assignment
\* with completed = true and completedAt set, and carries the workout record
\* of the assignment in its workout field
C28_ResponseEmbedsWorkout ==
    (resp.op = "complete" /\ resp.status = 200)
        => /\ resp.body.completed
           /\ resp.body.completedAt # Null
           /\ "workout" \in DOMAIN resp.body
           /\ resp.body.workout = getWorkout(workouts, resp.body.workoutId)

\* what the 200 response does carry: the stored assignment, completed
C28_ResponseIsStoredAssignment ==
    (resp.op = "complete" /\ resp.status = 200)
        => /\ resp.body.completed
           /\ resp.body.completedAt # Null
           /\ resp.body = userWorkouts[resp.body.id]

----------------------------------------------------------------------------
(* C29 *)

RECURSIVE DurationOf(_)
\* the sum of the durations of the workouts of the assignments in S
DurationOf(S) ==
    IF S = {} THEN 0
    ELSE LET i == CHOOSE x \in S : TRUE IN
         workouts[userWorkouts[i].workoutId].duration + DurationOf(S \ {i})

\* C29: with no request to the stats endpoint, in every reachable state the
\* completedWorkouts of every user is the number of the user's completed
\* assignments, caloriesBurned is the sum of the calories of their workouts
\* and activeMinutes is the sum of their durations
C29_StatsAreAggregates ==
    \A u \in DOMAIN users :
        /\ users[u].completedWorkouts = Cardinality(CompletedOf(u))
        /\ users[u].caloriesBurned = CaloriesOf(CompletedOf(u))
        /\ users[u].activeMinutes = DurationOf(CompletedOf(u))

\* the same for the users that existed when their assignments were completed:
\* the default user, who exists from the start
C29_DefaultUserAggregates ==
    /\ users[1].completedWorkouts = Cardinality(CompletedOf(1))
    /\ users[1].activeMinutes = DurationOf(CompletedOf(1))

----------------------------------------------------------------------------
(* C30 *)

\* C30: when assignments are completed through completeWorkout() of the
\* client only, then whenever no call is in progress the stored
\* completedWorkouts of the user is the number of the user's completed
\* assignments and caloriesBurned is the sum of their workouts' calories:
\* each completion has been counted once
C30_CountedOnceEndToEnd ==
    client.pc = "idle"
        => /\ users[USER_ID].completedWorkouts = Cardinality(CompletedOf(USER_ID))
           /\ users[USER_ID].caloriesBurned = CaloriesOf(CompletedOf(USER_ID))

----------------------------------------------------------------------------
(* C31 *)

C31_SendStep ==
    (client.pc = "idle" /\ client'.pc = "complete" /\ CompleteWorkout)
        => client'.userWorkout.id = client.startedId

\* C31: the assignment that completeWorkout() sends to the complete endpoint
\* is the one whose id the preceding startWorkout(userWorkoutId) was given,
\* whatever assignments the user has
C31_CompletesStartedAssignment == [][C31_SendStep]_vars

\* what does hold: the assignment sent is one of the workout that was started
C31_SendsSameWorkoutStep ==
    (client.pc = "idle" /\ client'.pc = "complete" /\ CompleteWorkout)
        => /\ client'.userWorkout.workoutId = client.currentWorkout.id
           /\ ~client'.userWorkout.completed

C31_SendsSameWorkout == [][C31_SendsSameWorkoutStep]_vars

----------------------------------------------------------------------------
(* C32 *)

C32_CompleteFrameStep ==
    \A id \in UserWorkoutIds :
        (id \in DOMAIN userWorkouts /\ Complete(id) /\ resp'.status = 200)
            => LET u == userWorkouts[id].userId IN
               /\ DOMAIN userWorkouts' = DOMAIN userWorkouts
               /\ \A i \in DOMAIN userWorkouts \ {id} : userWorkouts'[i] = userWorkouts[i]
               /\ DOMAIN users' = DOMAIN users
               /\ \A v \in DOMAIN users \ {u} : users'[v] = users[v]
               /\ DOMAIN pets' = DOMAIN pets
               /\ \A k \in DOMAIN pets : pets[k].userId # u => pets'[k] = pets[k]
               /\ UNCHANGED <<workouts, exercises, workoutIdCounter, exerciseIdCounter,
                              userIdCounter, petIdCounter, userWorkoutIdCounter>>

C32_ScheduleFrameStep ==
    \A u \in UserIds, w \in WorkoutIds :
        Schedule(u, w, "2025-01-10T08:00")
            => UNCHANGED <<users, pets, workouts, exercises, workoutIdCounter,
                           exerciseIdCounter, userIdCounter, petIdCounter>>

\* C32: a successful complete request on an assignment of user u changes
\* that assignment, the record of u and the pet of u only; every other
\* assignment, user and pet, the workouts, the exercises and all id counters
\* stay as they are. A schedule request changes the assignments and their id
\* counter only
C32_CompleteAndScheduleFrame ==
    [][C32_CompleteFrameStep /\ C32_ScheduleFrameStep]_vars

\* user 2 has completed an assignment while user 1 has a completed
\* assignment, statistics and an awarded pet
C32_Witness ==
    /\ resp.op = "complete" /\ resp.status = 200 /\ resp.body.userId = 2
    /\ 2 \in DOMAIN users /\ users[2].completedWorkouts = 1
    /\ users[1].completedWorkouts = 1
    /\ pets[1].xp > 0

----------------------------------------------------------------------------
(* C33 *)

\* C33: in every reachable state the workoutId of every stored assignment is
\* the id of a stored workout, so no element of getUserWorkoutsByUserId has
\* an undefined workout and getUserWorkoutWithDetails finds every stored
\* assignment
C33_AssignmentsReferToWorkouts ==
    /\ \A i \in DOMAIN userWorkouts : userWorkouts[i].workoutId \in DOMAIN workouts
    /\ \A u \in UserIds :
          LET list == getUserWorkoutsByUserId(userWorkouts, workouts, u) IN
          \A k \in 1..Len(list) :
              /\ list[k].workout # Undefined
              /\ list[k].workout.id = list[k].workoutId
    /\ \A i \in DOMAIN userWorkouts :
          getUserWorkoutWithDetails(userWorkouts, workouts, i) # Undefined

\* assignments of two workouts are stored and a request for a workout that
\* is not in the store has been refused
C33_Witness ==
    /\ resp.op = "schedule" /\ resp.status = 404
    /\ \E i, j \in DOMAIN userWorkouts :
          userWorkouts[i].workoutId = 1 /\ userWorkouts[j].workoutId = 2

----------------------------------------------------------------------------
(* C34 *)

\* every record of the map m is stored under its id, below the counter
IdsAreKeys(m, counter) == \A k \in DOMAIN m : m[k].id = k /\ k < counter

\* from m and counter to m2 and counter2: the counter does not go back, no
\* key is dropped, and a new key is at or above the old counter, below the
\* new one, and leaves the records that were there as they were
Allocates(m, counter, m2, counter2) ==
    /\ counter2 >= counter
    /\ DOMAIN m \subseteq DOMAIN m2
    /\ \A k \in DOMAIN m2 \ DOMAIN m :
          /\ k >= counter /\ k < counter2
          /\ \A j \in DOMAIN m : k > j /\ m2[j] = m[j]

C34_IdsAreKeys ==
    /\ IdsAreKeys(users, userIdCounter)
    /\ IdsAreKeys(pets, petIdCounter)
    /\ IdsAreKeys(userWorkouts, userWorkoutIdCounter)
    /\ IdsAreKeys(workouts, workoutIdCounter)
    /\ IdsAreKeys(exercises, exerciseIdCounter)

C34_AllocateStep ==
    /\ Allocates(users, userIdCounter, users', userIdCounter')
    /\ Allocates(pets, petIdCounter, pets', petIdCounter')
    /\ Allocates(userWorkouts, userWorkoutIdCounter, userWorkouts', userWorkoutIdCounter')
    /\ Allocates(workouts, workoutIdCounter, workouts', workoutIdCounter')
    /\ Allocates(exercises, exerciseIdCounter, exercises', exerciseIdCounter')

\* C34: for users, pets, workouts, assignments and exercises, every record is
\* stored under its own id; a create gives an id above every id given before
\* for that kind, never an id given before, and leaves the stored records
\* as they were
C34_IdsAreMonotonic == []C34_IdsAreKeys /\ [][C34_AllocateStep]_vars

\* two users, two pets and two assignments have been created
C34_Witness ==
    /\ DOMAIN users = {1, 2} /\ DOMAIN pets = {1, 2} /\ DOMAIN userWorkouts = {1, 2}
    /\ userIdCounter = 3 /\ petIdCounter = 3 /\ userWorkoutIdCounter = 3
    /\ resp.status = 201

----------------------------------------------------------------------------
(* C35 *)

\* C35: between two calls of reset(), whatever ticks, pause() and resume()
\* calls follow start(), onComplete is called at most once
C35_OnCompleteAtMostOnce == client.completions <= 1

\* what does hold: onComplete is called only by a tick that finds timeLeft
\* at 1 or 0, and a countdown that is neither paused nor reset calls it once
C35_SecondCallStep ==
    (client.completions >= 1 /\ client'.completions > client.completions)
        => /\ TimerTick
           /\ client.timeLeft = 0
           /\ client.isActive /\ ~client.isPaused

C35_SecondCallNeedsResume == [][C35_SecondCallStep]_vars

----------------------------------------------------------------------------
(* C36 *)

C36_TimerStep ==
    /\ TimerTick => /\ client.isActive /\ ~client.isPaused
                    /\ client'.timeLeft = Max(client.timeLeft - 1, 0)
    /\ client'.timeLeft # client.timeLeft
          => (TimerTick \/ \E newTime \in 0..MaxTime : TimerReset(newTime))
    /\ (TimerStart \/ TimerPause \/ TimerResume) => client'.timeLeft = client.timeLeft
    /\ (TimerResume /\ ~client.isActive) => ~client'.isActive
    /\ \A newTime \in 0..MaxTime :
          TimerReset(newTime) => /\ client'.timeLeft = newTime
                                 /\ ~client'.isActive /\ ~client'.isPaused

\* C36: timeLeft is never negative; a tick happens only while the timer is
\* active and not paused and lowers timeLeft by one, or leaves it at 0;
\* nothing but a tick or a reset changes timeLeft, so a paused or unstarted
\* timer keeps it; resume() leaves an unstarted timer unstarted; reset(t)
\* sets timeLeft to t and clears isActive and isPaused
C36_TimeLeftMovesByTickOrReset ==
    [](client.timeLeft >= 0) /\ [][C36_TimerStep]_vars

\* a countdown has been paused on its way down
C36_Witness ==
    /\ client.isActive /\ client.isPaused /\ ~client.interval
    /\ client.timeLeft = 2
    /\ client.completions = 0

----------------------------------------------------------------------------
(* C37 *)

\* a started countdown that has seconds left
TimerStarted == client.isActive /\ client.timeLeft >= 1

\* the countdown is at 0 and onComplete has been called
TimerDone == client.timeLeft = 0 /\ client.completions >= 1

\* onComplete is not called before the tick that takes timeLeft to 0
TimerCompletesAtZero == client.completions >= 1 => client.timeLeft = 0

\* the countdown ends, unless a reset stops the timer
TimerTerminates == TimerStarted ~> (TimerDone \/ ~client.isActive)

\* C37: a started timer with timeLeft >= 1 that is not reset and is again
\* and again not paused reaches timeLeft = 0 with onComplete called, given
\* only that a tick that stays possible happens (weak fairness, as stated by
\* SpecTimerFair); and onComplete is not called before timeLeft is 0
C37_StartedTimerTerminates ==
    /\ []TimerCompletesAtZero
    /\ ([]<>(~client.isPaused)) => TimerTerminates

\* C37 with the tick strongly fair: a tick that is possible again and again
\* happens. Then a started timer with timeLeft >= 1 that is not reset and is
\* again and again not paused reaches timeLeft = 0 with onComplete called,
\* and onComplete is not called before timeLeft is 0
C37_TerminatesWithStrongFairness ==
    /\ []TimerCompletesAtZero
    /\ (SF_vars(TimerTick) /\ []<>(~client.isPaused)) => TimerTerminates

\* a countdown has ended: timeLeft is 0, onComplete was called once and the
\* interval is cleared
C37_Witness ==
    /\ client.isActive /\ ~client.isPaused /\ ~client.interval
    /\ client.timeLeft = 0
    /\ client.completions = 1

====
